---- MODULE Spec2Model ----
(***************************************************************************)
(* Model of esbatu: the Node connection lifecycle (src/unnamed/part_001,   *)
(* the current node/index.ts), the Coordinator (Esbatu, second half of     *)
(* src/src/node/Rest.ts), VoiceConnection and Player with migration        *)
(* (src/src/guild).  Every async method is cut at its awaits: one action   *)
(* per synchronous segment, the call's locals kept in a task record.       *)
(***************************************************************************)
EXTENDS Integers, Sequences, FiniteSets, TLC

\* ------------------------------------------------------------------ sets
Nodes == {"A", "B", "C"}
GuildSeq == <<"G1", "G2">>
Guilds == {GuildSeq[i] : i \in 1..Len(GuildSeq)}
Channels == {"C1"}
SessionIds == {"s1", "s2"}
Null == "null"

\* State enum (Constants.ts)
Connecting == "Connecting"
Nearly == "Nearly"
Connected == "Connected"
Reconnecting == "Reconnecting"
Disconnecting == "Disconnecting"
Disconnected == "Disconnected"

\* VoiceState enum (Constants.ts)
SessionReady == "SessionReady"
SessionIdMissing == "SessionIdMissing"
SessionEndpointMissing == "SessionEndpointMissing"
SessionFailedUpdate == "SessionFailedUpdate"

\* options.reconnectTries ?? 3
reconnectTries == 3

VARIABLES
    id,            \* Esbatu.id: Null until the library user sets it
    options,       \* Esbatu.options: moveOnDisconnect, resume, resumeByLibrary
    redis,         \* Esbatu.redis is configured
    nodes,         \* Esbatu.nodes: names of the registered Node objects
    node,          \* the Node objects' fields, by name
    timer,         \* pending setTimeout(connect) of Node.reconnect, by node
    connectCall,   \* the connect() call in flight on each Node
    connectResult, \* how the latest connect() call on each Node ended
    notes,         \* notifications emitted on the Coordinator, by node
    ret,           \* the call or push handler that ended in the latest step, and how
    surfaced,      \* the event a Player or a VoiceConnection emitted in the latest step
    redisSession,  \* durable store: RedisKey.NodeSession(name)
    redisPlayers,  \* durable store: RedisKey.NodePlayers(name), the roster
    connections,   \* Esbatu.connections: guild -> VoiceConnection, 0 for none
    players,       \* Esbatu.players: guild -> Player, 0 for none
    VoiceConnection, \* the VoiceConnection objects, by reference
    Player,        \* the Player objects, by reference
    joined,        \* the guilds a joinVoiceChannel has resolved for so far
    remote,        \* the players each Lavalink server holds, by node and guild
    tasks,         \* the async calls in flight, cut at their awaits
    packets        \* the latest voice-state request sent to the gateway, by guild

nodeVars == <<id, options, redis, nodes, node, timer, connectCall, connectResult,
              notes, ret, redisSession>>
guildVars == <<connections, players, VoiceConnection, Player, joined, remote, tasks,
              packets>>
vars == <<nodeVars, redisPlayers, guildVars, surfaced>>

\* At most MaxTasks async calls (joinVoiceChannel, leaveVoiceChannel,
\* movePlayer, connectionUpdate listeners) are in flight at a time.
MaxTasks == 1
TaskIds == 1..MaxTasks

\* A roster holds at most MaxRoster entries: a call about to push one more waits.
MaxRoster == 2

\* References to VoiceConnection and to Player objects: one per guild for the
\* two maps, one per call in flight, and one for the object being made.
Refs == 1..(Len(GuildSeq) + MaxTasks + 1)

\* Node.stats before the first Stats push (undefined).  load is
\* cpu.systemLoad in hundredths; frames: frameStats is not null.
NoStats ==
    [known |-> FALSE, players |-> 0, load |-> 0, frames |-> FALSE, deficit |-> 0,
     nulled |-> 0]

\* A Node object as its constructor leaves it; made = FALSE until addNode
\* constructs it.  ws: none (null) | connecting | open | closing | dead.
NewNode ==
    [made |-> FALSE, state |-> Disconnected, reconnects |-> 0, destroyed |-> FALSE,
     initialized |-> FALSE, ws |-> "none", sessionId |-> Null, stats |-> NoStats]

IdleConnect == [pc |-> "idle", adding |-> FALSE]

\* disconnect: "disconnect" notifications so far; count: the count the latest one
\* carried; closeCode: the code of the latest "close" notification (1000 is
\* Esbatu.removeNode's); removed: disconnect() ran; error: an "error"
\* notification with the Node's name was emitted by clean().
NoNotes == [disconnect |-> 0, count |-> 0, closeCode |-> 0, removed |-> FALSE,
            error |-> FALSE]

NoRet == [op |-> "none", who |-> Null, res |-> "none"]

\* Saturating counter of the notifications kept for observation.
Bump(k) == IF k < 2 THEN k + 1 ELSE k

InSeq(x, s) == \E i \in 1..Len(s) : s[i] = x
Without(s, x) == SelectSeq(s, LAMBDA y : y # x)

\* ------------------------------------------------------- guild-level objects

\* A VoiceConnection object (shardId is 0 throughout).  waiter: the task
\* awaiting once("connectionUpdate") in connect(), 0 for none.  listener: the
\* Player the on("connectionUpdate") listener of joinVoiceChannel closes over,
\* 0 while no such listener is registered.
NoConn ==
    [exists |-> FALSE, guildId |-> Null, state |-> Disconnected, channelId |-> Null,
     muted |-> FALSE, deafened |-> TRUE, sessionId |-> Null, serverUpdate |-> Null,
     region |-> Null, lastRegion |-> Null, waiter |-> 0, listener |-> 0]

\* new VoiceConnection(manager, {guildId: g, channelId: ch, shardId: 0})
NewConn(g, ch) == [NoConn EXCEPT !.exists = TRUE, !.guildId = g, !.channelId = ch]

\* A Player object; node = Null stands for an undefined Node reference.
NoPlayer ==
    [exists |-> FALSE, guildId |-> Null, node |-> Null, trackIdentifier |-> Null,
     encodedTrack |-> Null, position |-> 0, paused |-> FALSE, volume |-> 100,
     filters |-> "none", ping |-> 0, connected |-> FALSE, prepareMove |-> FALSE]

\* new Player(guildId, node)
NewPlayer(g, n) == [NoPlayer EXCEPT !.exists = TRUE, !.guildId = g, !.node = n]

\* The player a Lavalink server holds for a guild.
NoRemote ==
    [exists |-> FALSE, track |-> Null, position |-> 0, paused |-> FALSE,
     volume |-> 100, filters |-> "none", connected |-> FALSE]

\* What a resume request carries besides the voice data
NoBody == [track |-> Null, position |-> 0, paused |-> FALSE, filters |-> "none"]

\* A call in flight.  g, n: the guild and the Node (this) it was invoked on;
\* ch: the channel asked for; tgt, last: movePlayer's node and lastNode; cache:
\* the roster the call read; req, body: the Node its pending request went to
\* and what it carries; err: the command it awaits is going to reject; pl,
\* conn: the Player and the VoiceConnection the call holds; sole: when the
\* movePlayer started, no Node but the bound one held a player for the guild;
\* arg: the argument of a Player operation; was: the Player's fields when that
\* operation was called (kept to say what a failed call has changed); loop:
\* the replay of a resumed session the call belongs to; calls: the calls of
\* a Promise.allSettled batch that have not settled, by guild.
\* The for...of loop of the Ready replay: list is dataCache, i the position the
\* array iterator reads next, first the roster as it was read, tried the
\* guilds a join was issued for, in order, won those whose join resolved.
NoLoop == [on |-> FALSE, list |-> <<>>, i |-> 0, first |-> <<>>, tried |-> <<>>, won |-> {}]

IdleTask ==
    [op |-> "idle", pc |-> "-", g |-> Null, n |-> Null, ch |-> Null, tgt |-> Null,
     last |-> Null, cache |-> <<>>, req |-> Null, body |-> NoBody, err |-> FALSE,
     pl |-> 0, conn |-> 0, sole |-> FALSE, arg |-> Null, was |-> NoPlayer,
     batch |-> Null, loop |-> NoLoop, calls |-> [g \in Guilds |-> "none"]]

\* The stored roster of a node: unset (get answers null) or a list.
NoRoster == [set |-> FALSE, list |-> <<>>]

Entry(g, ch, deaf, mute) ==
    [guildId |-> g, channelId |-> ch, shardId |-> 0, deaf |-> deaf, mute |-> mute]

HasGuild(cache, g) == \E i \in 1..Len(cache) : cache[i].guildId = g

\* dataCache.indexOf(dataCache.find(e => e.guildId === g)): the first entry of
\* g, and -1 (here 0) when find answers undefined
IndexOfGuild(cache, g) ==
    IF HasGuild(cache, g)
    THEN CHOOSE i \in 1..Len(cache) :
            cache[i].guildId = g /\ \A j \in 1..(i - 1) : cache[j].guildId # g
    ELSE 0

RemoveAt(cache, i) == SubSeq(cache, 1, i - 1) \o SubSeq(cache, i + 1, Len(cache))

\* dataCache.splice(indexOf(find(...)), 1): splice(-1, 1) removes the last entry
spliceGuild(cache, g) ==
    IF HasGuild(cache, g) THEN RemoveAt(cache, IndexOfGuild(cache, g))
    ELSE IF Len(cache) > 0 THEN RemoveAt(cache, Len(cache))
    ELSE cache

\* dataCache.at(dataIndex) in the connectionUpdate listener: at(-1) is the last
\* entry, undefined (0 here) on an empty list
AtIndex(cache, g) == IF HasGuild(cache, g) THEN IndexOfGuild(cache, g) ELSE Len(cache)

\* IDataCache === null ? [] : JSON.parse(IDataCache), of a stored roster
parseRoster(r) == IF r.set THEN r.list ELSE <<>>

\* The guild-level state as one value, for the handlers below, which are
\* written as functions from such a value to the next.
Cur ==
    [connections |-> connections, players |-> players,
     VoiceConnection |-> VoiceConnection, Player |-> Player, tasks |-> tasks,
     packets |-> packets, redisPlayers |-> redisPlayers, remote |-> remote,
     ret |-> NoRet, surfaced |-> "none", joined |-> joined]

\* Object references are opaque: the objects are renumbered in the order a
\* walk from the two maps and the tasks meets them, and what the walk does not
\* meet is garbage.
RECURSIVE FirstSeen(_, _)
FirstSeen(refs, acc) ==
    IF refs = <<>> THEN acc
    ELSE FirstSeen(Tail(refs),
                   IF Head(refs) = 0 \/ InSeq(Head(refs), acc) THEN acc
                   ELSE Append(acc, Head(refs)))

IndexIn(order, x) == IF x = 0 THEN 0 ELSE CHOOSE i \in 1..Len(order) : order[i] = x

Renumbered(s) ==
    LET corder == FirstSeen([i \in 1..Len(GuildSeq) |-> s.connections[GuildSeq[i]]]
                            \o [t \in 1..MaxTasks |-> s.tasks[t].conn], <<>>)
        porder == FirstSeen([i \in 1..Len(GuildSeq) |-> s.players[GuildSeq[i]]]
                            \o [t \in 1..MaxTasks |-> s.tasks[t].pl]
                            \o [i \in 1..Len(corder) |-> s.VoiceConnection[corder[i]].listener],
                            <<>>)
    IN  [s EXCEPT
            !.connections = [g \in Guilds |-> IndexIn(corder, s.connections[g])],
            !.players = [g \in Guilds |-> IndexIn(porder, s.players[g])],
            !.VoiceConnection =
                [i \in Refs |-> IF i <= Len(corder)
                                THEN [s.VoiceConnection[corder[i]] EXCEPT
                                         !.listener = IndexIn(porder, @)]
                                ELSE NoConn],
            !.Player = [i \in Refs |-> IF i <= Len(porder) THEN s.Player[porder[i]]
                                      ELSE NoPlayer],
            !.tasks = [t \in TaskIds |->
                          [s.tasks[t] EXCEPT !.conn = IndexIn(corder, @),
                                             !.pl = IndexIn(porder, @)]]]

\* The guild-level state is taken to s
CommitGuild(s) ==
    LET r == Renumbered(s) IN
    /\ connections' = r.connections
    /\ players' = r.players
    /\ VoiceConnection' = r.VoiceConnection
    /\ Player' = r.Player
    /\ tasks' = r.tasks
    /\ packets' = r.packets
    /\ redisPlayers' = r.redisPlayers
    /\ remote' = r.remote
    /\ ret' = r.ret
    /\ surfaced' = r.surfaced
    /\ joined' = r.joined

\* The step of a handler that takes the guild-level state to s
Commit(s) ==
    /\ CommitGuild(s)
    /\ UNCHANGED <<id, options, redis, nodes, node, timer, connectCall, connectResult,
                   notes, redisSession>>

FreeTasks(s) == {t \in TaskIds : s.tasks[t].op = "idle"}
FreeTask(s) == CHOOSE t \in FreeTasks(s) : \A u \in FreeTasks(s) : t <= u
FreeConn(s) == CHOOSE i \in Refs : ~s.VoiceConnection[i].exists
FreePlayer(s) == CHOOSE i \in Refs : ~s.Player[i].exists

\* A call ends: its task is cleared and how it ended is left in ret.  A call
\* made by the clean() of a Node settles that clean's batch: clean() goes on
\* from its await with the outcome.  A join made by the replay of a resumed
\* session hands its outcome to the replay's loop.
End(s, t, res) ==
    [s EXCEPT !.tasks[t] = IF s.tasks[t].loop.on
                           THEN [IdleTask EXCEPT !.op = "replay", !.pc = "joined",
                                                 !.n = s.tasks[t].n, !.arg = res,
                                                 !.loop = s.tasks[t].loop]
                           ELSE IF s.tasks[t].batch = Null THEN IdleTask
                           ELSE [IdleTask EXCEPT !.op = "clean", !.pc = "settled",
                                                 !.n = s.tasks[t].batch, !.g = s.tasks[t].g,
                                                 !.arg = res],
              !.ret = IF s.tasks[t].op = "listener" THEN @
                      ELSE [op |-> s.tasks[t].op, who |-> s.tasks[t].g, res |-> res]]

\* ------------------------------------------------------------ Node, pure parts

\* shouldClean with the comparison off by one (a retry too many)
shouldCleanLate(r) == r.destroyed \/ r.reconnects > reconnectTries

\* Node.shouldClean, of the fields r of a Node
shouldClean(r) == r.destroyed \/ r.reconnects >= reconnectTries

\* Node.destroy that leaves the session id as it was
destroyKeepsSession(r) ==
    [r EXCEPT !.ws = "none", !.state = Disconnected, !.destroyed = shouldClean(r)]

\* Node.destroy, its writes to the Node's own fields: the transport is dropped
\* with its listeners, and the Node is marked destroyed when shouldClean.
destroyFields(r) ==
    [r EXCEPT !.ws = "none", !.sessionId = Null, !.state = Disconnected,
              !.destroyed = shouldClean(r)]

\* ------------------------------------------------------ Node, the handlers

\* Node.destroy(count) on the Node n whose fields the handler has brought to r
\* and its notifications so far to e
destroy(n, r, e, count) ==
    /\ node' = [node EXCEPT ![n] = destroyFields(r)]
    /\ IF shouldClean(r)
       THEN /\ notes' = [notes EXCEPT ![n] = [e EXCEPT !.disconnect = Bump(@), !.count = count]]
            /\ nodes' = Without(nodes, n)
       ELSE /\ notes' = [notes EXCEPT ![n] = e]
            /\ UNCHANGED nodes

\* Node.clean with no Playback Handle to move: destroy(0)
clean(n, r, e) ==
    /\ destroy(n, r, e, 0)
    /\ UNCHANGED timer

\* Node.reconnect that leaves the reconnect counter as it is
reconnectUncounted(n, r, e) ==
    IF r.state = Reconnecting
    THEN /\ node' = [node EXCEPT ![n] = r]
         /\ notes' = [notes EXCEPT ![n] = e]
         /\ UNCHANGED <<nodes, timer>>
    ELSE LET d == IF r.state # Disconnected THEN destroyFields(r) ELSE r IN
         /\ node' = [node EXCEPT ![n] = [d EXCEPT !.state = Reconnecting]]
         /\ IF r.state # Disconnected /\ shouldClean(r)
            THEN /\ notes' = [notes EXCEPT ![n] = [e EXCEPT !.disconnect = Bump(@), !.count = 0]]
                 /\ nodes' = Without(nodes, n)
            ELSE /\ notes' = [notes EXCEPT ![n] = e]
                 /\ UNCHANGED nodes
         /\ timer' = [timer EXCEPT ![n] = @ + 1]

\* Node.reconnect
reconnect(n, r, e) ==
    IF r.state = Reconnecting
    THEN /\ node' = [node EXCEPT ![n] = r]
         /\ notes' = [notes EXCEPT ![n] = e]
         /\ UNCHANGED <<nodes, timer>>
    ELSE LET d == IF r.state # Disconnected THEN destroyFields(r) ELSE r IN
         /\ node' = [node EXCEPT ![n] = [d EXCEPT !.state = Reconnecting,
                                                  !.reconnects = d.reconnects + 1]]
         /\ IF r.state # Disconnected /\ shouldClean(r)
            THEN /\ notes' = [notes EXCEPT ![n] = [e EXCEPT !.disconnect = Bump(@), !.count = 0]]
                 /\ nodes' = Without(nodes, n)
            ELSE /\ notes' = [notes EXCEPT ![n] = e]
                 /\ UNCHANGED nodes
         /\ timer' = [timer EXCEPT ![n] = @ + 1]

\* Node.connect up to its first await (the version probe): the two fail-fast
\* checks and the early return.  adding: the call is Esbatu.addNode's.
connect(n, r, adding) ==
    IF id = Null \/ r.destroyed
    THEN /\ connectResult' = [connectResult EXCEPT ![n] = "error"]
         /\ UNCHANGED connectCall
    ELSE IF r.state = Connected
    THEN /\ connectResult' = [connectResult EXCEPT ![n] = "noop"]
         /\ UNCHANGED connectCall
    ELSE /\ connectCall' = [connectCall EXCEPT ![n] = [pc |-> "probe", adding |-> adding]]
         /\ connectResult' = [connectResult EXCEPT ![n] = "pending"]

\* The library user sets Esbatu.id once the client is ready.
SetId ==
    /\ id = Null
    /\ id' = "me"
    /\ ret' = NoRet /\ surfaced' = "none"
    /\ UNCHANGED <<options, redis, nodes, node, timer, connectCall, connectResult,
                   notes, redisSession, redisPlayers, guildVars>>

\* Esbatu.addNode: new Node, then await node.connect(); a Node whose connect()
\* throws at once is never registered and the object is dropped.
AddNode(n) ==
    /\ ~node[n].made
    /\ connectCall[n].pc = "idle"
    /\ connect(n, NewNode, TRUE)
    /\ node' = [node EXCEPT ![n] = IF id = Null THEN NewNode
                                   ELSE [NewNode EXCEPT !.made = TRUE]]
    /\ ret' = NoRet /\ surfaced' = "none"
    /\ UNCHANGED <<id, options, redis, nodes, timer, notes, redisSession, redisPlayers, guildVars>>

\* Node.connect after the version probe answered v: an unsupported version
\* throws; otherwise state = Connecting and the stored session id is read.
\* Without a store there is nothing to wait for and the transport is opened.
ConnectProbe(n, v) ==
    /\ connectCall[n].pc = "probe"
    /\ IF v = "unsupported"
       THEN /\ connectCall' = [connectCall EXCEPT ![n] = IdleConnect]
            /\ connectResult' = [connectResult EXCEPT ![n] = "error"]
            /\ node' = [node EXCEPT ![n] = IF connectCall[n].adding THEN NewNode ELSE @]
            /\ UNCHANGED nodes
       ELSE IF redis
       THEN /\ connectCall' = [connectCall EXCEPT ![n].pc = "session"]
            /\ node' = [node EXCEPT ![n].state = Connecting]
            /\ UNCHANGED <<connectResult, nodes>>
       ELSE /\ connectCall' = [connectCall EXCEPT ![n] = IdleConnect]
            /\ connectResult' = [connectResult EXCEPT ![n] = "ok"]
            /\ node' = [node EXCEPT ![n].state = Connecting, ![n].sessionId = Null,
                                    ![n].initialized = TRUE, ![n].ws = "connecting"]
            /\ nodes' = IF connectCall[n].adding THEN Append(Without(nodes, n), n) ELSE nodes
    /\ ret' = NoRet /\ surfaced' = "none"
    /\ UNCHANGED <<id, options, redis, timer, notes, redisSession, redisPlayers, guildVars>>

\* Node.connect that opens the transport without the stored session id
ConnectSessionFresh(n, ok) ==
    /\ connectCall[n].pc = "session"
    /\ connectCall' = [connectCall EXCEPT ![n] = IdleConnect]
    /\ IF ok
       THEN /\ connectResult' = [connectResult EXCEPT ![n] = "ok"]
            /\ node' = [node EXCEPT ![n].sessionId = Null,
                                    ![n].initialized = TRUE, ![n].ws = "connecting"]
            /\ nodes' = IF connectCall[n].adding THEN Append(Without(nodes, n), n) ELSE nodes
       ELSE /\ connectResult' = [connectResult EXCEPT ![n] = "error"]
            /\ node' = [node EXCEPT ![n] = IF connectCall[n].adding THEN NewNode ELSE @]
            /\ UNCHANGED nodes
    /\ ret' = NoRet /\ surfaced' = "none"
    /\ UNCHANGED <<id, options, redis, timer, notes, redisSession, redisPlayers, guildVars>>

\* Node.connect after the read of the stored session id: the transport is
\* opened with the id as resumption credential, or the read failed and
\* connect() throws with the state left at Connecting.
ConnectSession(n, ok) ==
    /\ connectCall[n].pc = "session"
    /\ connectCall' = [connectCall EXCEPT ![n] = IdleConnect]
    /\ IF ok
       THEN /\ connectResult' = [connectResult EXCEPT ![n] = "ok"]
            /\ node' = [node EXCEPT ![n].sessionId = redisSession[n],
                                    ![n].initialized = TRUE, ![n].ws = "connecting"]
            /\ nodes' = IF connectCall[n].adding THEN Append(Without(nodes, n), n) ELSE nodes
       ELSE /\ connectResult' = [connectResult EXCEPT ![n] = "error"]
            /\ node' = [node EXCEPT ![n] = IF connectCall[n].adding THEN NewNode ELSE @]
            /\ UNCHANGED nodes
    /\ ret' = NoRet /\ surfaced' = "none"
    /\ UNCHANGED <<id, options, redis, timer, notes, redisSession, redisPlayers, guildVars>>

\* The timer of Node.reconnect fires: connect().
TimerFire(n) ==
    /\ timer[n] > 0
    /\ connectCall[n].pc = "idle"
    /\ timer' = [timer EXCEPT ![n] = @ - 1]
    /\ connect(n, node[n], FALSE)
    /\ ret' = NoRet /\ surfaced' = "none"
    /\ UNCHANGED <<id, options, redis, nodes, node, notes, redisSession, redisPlayers, guildVars>>

\* Node.open: the transport's upgrade handshake succeeded.
Upgrade(n) ==
    /\ node[n].ws = "connecting"
    /\ node' = [node EXCEPT ![n].ws = "open", ![n].reconnects = 0, ![n].state = Nearly]
    /\ ret' = NoRet /\ surfaced' = "none"
    /\ UNCHANGED <<id, options, redis, nodes, timer, connectCall, connectResult,
                   notes, redisSession, redisPlayers, guildVars>>

\* The guilds whose Player is bound to Node n: the batch of n's clean()
Bound(n) == {g \in Guilds : players[g] # 0 /\ Player[players[g]].node = n}

\* clean() of Node n, its fields at r, has Players to move
Moves(n, r) == shouldClean(r) /\ options.moveOnDisconnect /\ Bound(n) # {}

\* Node.close: the transport closed (a failed handshake, a drop, or the close
\* that Node.disconnect asked for); clean() has no Player to move.
Close(n) ==
    /\ node[n].ws \in {"connecting", "open", "ready", "closing"}
    /\ ~Moves(n, [node[n] EXCEPT !.ws = "dead"])
    /\ LET r == [node[n] EXCEPT !.ws = "dead"]
           e == [notes[n] EXCEPT !.closeCode = IF node[n].ws = "closing" THEN 1000 ELSE 1006]
       IN  IF shouldClean(r) THEN clean(n, r, e) ELSE reconnect(n, r, e)
    /\ ret' = NoRet /\ surfaced' = "none"
    /\ UNCHANGED <<id, options, redis, connectCall, connectResult, redisSession,
                   redisPlayers, guildVars>>

\* Node.disconnect(code, reason)
disconnect(n) ==
    IF node[n].destroyed
    THEN UNCHANGED <<node, nodes, notes, timer>>
    ELSE LET r == [node[n] EXCEPT !.destroyed = TRUE, !.state = Disconnected]
             e == [notes[n] EXCEPT !.removed = TRUE]
         IN  IF r.ws # "none"
             THEN /\ node' = [node EXCEPT ![n] = [r EXCEPT !.ws = IF @ = "dead" THEN @ ELSE "closing"]]
                  /\ notes' = [notes EXCEPT ![n] = e]
                  /\ UNCHANGED <<nodes, timer>>
             ELSE /\ ~Moves(n, r)
                  /\ clean(n, r, e)

\* Esbatu.removeNode(name): an unknown name throws.
RemoveNode(n) ==
    /\ surfaced' = "none"
    /\ IF ~InSeq(n, nodes)
       THEN /\ ret' = [op |-> "removeNode", who |-> n, res |-> "error"]
            /\ UNCHANGED <<node, nodes, notes, timer>>
       ELSE /\ ret' = [op |-> "removeNode", who |-> n, res |-> "ok"]
            /\ disconnect(n)
    /\ UNCHANGED <<id, options, redis, connectCall, connectResult, redisSession,
                   redisPlayers, guildVars>>

\* Node.message, a Ready push on the open transport: dropped when the Node is
\* destroyed or Reconnecting; otherwise state = Connected and the issued
\* session id is kept.  With options.resume the id is written to the store
\* (setOk: the write is accepted) and the server told to keep the session (ok:
\* that request, and the roster read of a resumed session, are accepted); a
\* failure is emitted as "error" and "ready" is emitted all the same.  The
\* replay of a resumed session joins the guilds of the stored roster: the
\* push is taken here while that roster is empty (resumeByLibrary is off).
Ready(n, sid, resumed, setOk, ok) ==
    /\ node[n].ws \in {"open", "closing"}
    /\ (options.resume /\ resumed /\ redis) => parseRoster(redisPlayers[n]) = <<>>
    /\ ~options.resumeByLibrary
    /\ surfaced' = "none"
    /\ IF node[n].destroyed \/ node[n].state = Reconnecting
       THEN /\ node' = [node EXCEPT ![n].ws = IF @ = "open" THEN "ready" ELSE @]
            /\ ret' = NoRet
            /\ UNCHANGED redisSession
       ELSE /\ node' = [node EXCEPT ![n].ws = "ready", ![n].state = Connected,
                                    ![n].sessionId = sid]
            /\ redisSession' = IF options.resume /\ redis /\ setOk
                               THEN [redisSession EXCEPT ![n] = sid]
                               ELSE redisSession
            /\ ret' = [op |-> "ready", who |-> n,
                       res |-> IF options.resume /\ ((redis /\ ~setOk) \/ ~ok)
                               THEN "error" ELSE "ok"]
    /\ UNCHANGED <<id, options, redis, nodes, timer, connectCall, connectResult,
                   notes, redisPlayers, guildVars>>

\* ------------------------------------------------- VoiceConnection, Esbatu

\* VoiceConnection.sendVoiceUpdate: the op 4 packet handed to sendPacket
sendVoiceUpdate(s, c) ==
    [s EXCEPT !.packets[s.VoiceConnection[c].guildId] = s.VoiceConnection[c].channelId]

\* VoiceConnection.disconnect; removeAllListeners drops the once() waiter of
\* connect() and the listener of joinVoiceChannel alike
VoiceConnection_disconnect(s, c) ==
    IF s.VoiceConnection[c].state = Disconnected THEN s
    ELSE sendVoiceUpdate(
            [s EXCEPT !.VoiceConnection[c].channelId = Null,
                      !.VoiceConnection[c].state = Disconnected,
                      !.VoiceConnection[c].waiter = 0,
                      !.VoiceConnection[c].listener = 0], c)

\* The request a Player sends through this.node.rest, to Node n: the path
\* carries the Node's session id, and a server turns down the id "null".
Request(s, t, n, pc) ==
    [s EXCEPT !.tasks[t].pc = pc, !.tasks[t].req = n,
              !.tasks[t].err = (node[n].sessionId = Null)]

\* The catch of joinVoiceChannel around everything after connect()
JoinCatch(s, t) ==
    LET d == VoiceConnection_disconnect(s, s.tasks[t].conn) IN
    End([d EXCEPT !.connections[s.tasks[t].g] = 0], t, "error")

\* joinVoiceChannel once connection.connect() is through: connect() throws on
\* a missing session id or endpoint and the connection is unregistered;
\* otherwise the connection is Connected, the Player is made and its
\* sendServerUpdate request goes out.
JoinConnected(s, t, status) ==
    LET c == s.tasks[t].conn
        p == FreePlayer(s)
    IN  IF status \in {SessionIdMissing, SessionEndpointMissing}
        THEN End([s EXCEPT !.connections[s.tasks[t].g] = 0], t, "error")
        ELSE Request([s EXCEPT !.VoiceConnection[c].state = Connected,
                               !.Player[p] = NewPlayer(s.tasks[t].g, s.tasks[t].n),
                               !.tasks[t].pl = p],
                     t, s.tasks[t].n, "serverUpdate")

\* The connectionUpdate listener of joinVoiceChannel up to its first await: the
\* roster of player.node is read.  Without a store JSON.parse throws after the
\* await, and an undefined player.node throws before it: nothing happens.
Listener(s, c) ==
    LET p == s.VoiceConnection[c].listener
        t == FreeTask(s)
    IN  IF ~redis \/ s.Player[p].node = Null THEN s
        ELSE [s EXCEPT !.tasks[t] =
                 [IdleTask EXCEPT !.op = "listener", !.pc = "get",
                                  !.g = s.VoiceConnection[c].guildId, !.conn = c, !.pl = p,
                                  !.cache = parseRoster(s.redisPlayers[s.Player[p].node])]]

\* connection.emit("connectionUpdate", status): the once() of a pending
\* connect() resolves and the listener of joinVoiceChannel runs; the call that
\* awaited connect() goes on as soon as the emitting handler has returned.
emit(s, c, status) ==
    LET w == s.VoiceConnection[c].waiter
        s1 == [s EXCEPT !.VoiceConnection[c].waiter = 0, !.surfaced = status]
        s2 == IF s.VoiceConnection[c].listener # 0 /\ status = SessionReady
              THEN Listener(s1, c) ELSE s1
    IN  IF w # 0 THEN JoinConnected(s2, w, status) ELSE s2

\* Esbatu.updateInstance with a VOICE_STATE_UPDATE packet of user, for guild g
VoiceStateUpdate(g, user, ch, sid, deaf, mute) ==
    LET c == connections[g] IN
    /\ c # 0
    /\ IF user # id THEN Commit(Cur)
       ELSE Commit([Cur EXCEPT
                       !.VoiceConnection[c].channelId = ch,
                       !.VoiceConnection[c].deafened = deaf,
                       !.VoiceConnection[c].muted = mute,
                       !.VoiceConnection[c].sessionId = sid,
                       !.VoiceConnection[c].state = IF ch = Null THEN Disconnected ELSE @])

\* connection.emit("connectionUpdate", status) by the holder of the
\* connection (VoiceConnection is an EventEmitter; updateInstance itself emits
\* three of the four VoiceState codes)
ConnectionUpdate(g, status) ==
    LET c == connections[g] IN
    /\ c # 0
    /\ VoiceConnection[c].listener # 0 => FreeTasks(Cur) # {}
    /\ Commit(emit(Cur, c, status))

\* endpoint.split(".").shift().replace(/\d/gu, ""): the first label of the
\* endpoint without its digits
Region(endpoint) == IF endpoint = "e1" THEN "e" ELSE endpoint

\* the checks of updateInstance without the one of the session id
signalWithoutSession(endpoint, sessionId) ==
    IF endpoint = Null THEN SessionEndpointMissing ELSE SessionReady

\* The signal updateInstance emits for a VOICE_SERVER_UPDATE with this
\* endpoint on a connection that holds this session id
signal(endpoint, sessionId) ==
    IF endpoint = Null THEN SessionEndpointMissing
    ELSE IF sessionId = Null THEN SessionIdMissing
    ELSE SessionReady

\* Esbatu.updateInstance with a VOICE_SERVER_UPDATE packet for guild g
VoiceServerUpdate(g, endpoint) ==
    LET c == connections[g]
        status == signal(endpoint, VoiceConnection[c].sessionId)
    IN  /\ c # 0
        /\ VoiceConnection[c].listener # 0 => FreeTasks(Cur) # {}
        /\ IF status # SessionReady THEN Commit(emit(Cur, c, status))
           ELSE Commit(emit([Cur EXCEPT !.VoiceConnection[c].lastRegion = VoiceConnection[c].region,
                                        !.VoiceConnection[c].region = Region(endpoint),
                                        !.VoiceConnection[c].serverUpdate = endpoint],
                            c, SessionReady))

\* ------------------------------------------------- Node.joinVoiceChannel

\* Map.has that never finds the key
hasNot(map, key) == FALSE

\* this.manager.connections.has(guildId), of a map from keys to references
has(map, key) == map[key] # 0

\* joinVoiceChannel on Node n past its has() check, as call t on state s, up
\* to the await in connection.connect()
joinVoiceChannel(s, t, n, g, ch) ==
    LET c == FreeConn(s)
        s1 == [s EXCEPT !.VoiceConnection[c] =
                            [NewConn(g, ch) EXCEPT !.state = Connecting, !.waiter = t],
                        !.connections[g] = c]
    IN  [sendVoiceUpdate(s1, c) EXCEPT
            !.tasks[t] = [IdleTask EXCEPT !.op = "join", !.pc = "connect",
                                          !.g = g, !.n = n, !.ch = ch, !.conn = c]]

\* joinVoiceChannel({guildId: g, channelId: ch, shardId: 0}) on Node n, up to
\* the await in connection.connect()
JoinVoiceChannel(n, g, ch) ==
    /\ node[n].made
    /\ IF has(connections, g)
       THEN Commit([Cur EXCEPT !.ret = [op |-> "join", who |-> g, res |-> "error"]])
       ELSE /\ FreeTasks(Cur) # {}
            /\ Commit(joinVoiceChannel(Cur, FreeTask(Cur), n, g, ch))

\* connect() of VoiceConnection: voiceConnectionTimeout passes first, once()
\* aborts, connect() throws and joinVoiceChannel unregisters whatever
\* connection the guild has by now
JoinTimeout(t) ==
    /\ tasks[t].op = "join" /\ tasks[t].pc = "connect"
    /\ LET c == tasks[t].conn
           s1 == [Cur EXCEPT !.VoiceConnection[c].waiter = IF @ = t THEN 0 ELSE @,
                             !.connections[tasks[t].g] = 0]
       IN  Commit(End(s1, t, "error"))

\* The answer a server gives to an update that carries voice data only
\* (noReplace): the player is made if the server has none
VoiceUpdated(r, connected) ==
    IF r.exists THEN [r EXCEPT !.connected = connected]
    ELSE [NoRemote EXCEPT !.exists = TRUE, !.connected = connected]

Identifier(track) == IF track = Null THEN Null ELSE "i1"

\* Player.sendServerUpdate after its await: the answer r is mirrored
Mirrored(pl, r) ==
    [pl EXCEPT !.trackIdentifier = Identifier(r.track), !.position = r.position,
               !.ping = 0, !.volume = r.volume, !.paused = r.paused, !.filters = r.filters,
               !.connected = r.connected, !.encodedTrack = r.track]

\* A redis.set of the roster of Node n issued by task t: the store applies
\* commands in the order they are issued, so an accepted one (ok) takes effect
\* here and a refused one makes the await throw.
SetRoster(s, t, n, list, ok, pc) ==
    [s EXCEPT !.redisPlayers[n] = IF ok THEN [set |-> TRUE, list |-> list] ELSE @,
              !.tasks[t].pc = pc, !.tasks[t].err = ~ok]

\* A redis.get of the roster of Node n issued by task t
GetRoster(s, t, n, pc) ==
    [s EXCEPT !.tasks[t].pc = pc, !.tasks[t].cache = parseRoster(s.redisPlayers[n])]

\* this.manager.players.set(player.guildId, player); return player
JoinDone(s, t) ==
    End([s EXCEPT !.players[s.tasks[t].g] = s.tasks[t].pl,
                  !.joined = @ \cup {s.tasks[t].g}], t, "ok")

\* joinVoiceChannel after sendServerUpdate: a refused request goes to the
\* catch; otherwise the answer is mirrored, the listener is registered on the
\* connection and the roster of this Node is read.
JoinServerUpdate(t, ok, connected) ==
    /\ tasks[t].op = "join" /\ tasks[t].pc = "serverUpdate"
    /\ LET n == tasks[t].req
           g == tasks[t].g
           r == VoiceUpdated(remote[n][g], connected)
       IN  IF ~ok \/ tasks[t].err THEN Commit(JoinCatch(Cur, t))
           ELSE Commit(GetRoster([Cur EXCEPT
                                     !.remote[n][g] = r,
                                     !.Player[tasks[t].pl] = Mirrored(@, r),
                                     !.VoiceConnection[tasks[t].conn].listener = tasks[t].pl],
                                 t, tasks[t].n, "get"))

\* joinVoiceChannel after the roster was read (ok) or the read failed: an
\* entry is pushed and the roster written unless the guild is in it already.
JoinGet(t, ok, setOk) ==
    /\ tasks[t].op = "join" /\ tasks[t].pc = "get"
    /\ HasGuild(tasks[t].cache, tasks[t].g) \/ Len(tasks[t].cache) < MaxRoster
    /\ IF ~redis \/ ~ok THEN Commit(JoinCatch(Cur, t))
       ELSE IF HasGuild(tasks[t].cache, tasks[t].g) THEN Commit(JoinDone(Cur, t))
       ELSE Commit(SetRoster(Cur, t, tasks[t].n,
                             Append(tasks[t].cache, Entry(tasks[t].g, tasks[t].ch, TRUE, FALSE)),
                             setOk, "set"))

\* joinVoiceChannel after the roster write
JoinSet(t) ==
    /\ tasks[t].op = "join" /\ tasks[t].pc = "set"
    /\ IF tasks[t].err THEN Commit(JoinCatch(Cur, t)) ELSE Commit(JoinDone(Cur, t))

\* ------------------------------------------------- Node.message, Ready replay

\* The Ready replay after a failed rejoin of guild g: the guild's entry is
\* spliced out of dataCache and the roster written (setOk: the write is
\* accepted); the array iterator keeps its position.
replayPrune(s, t, n, loop, g, setOk) ==
    LET list == spliceGuild(loop.list, g) IN
    SetRoster([s EXCEPT !.tasks[t] = [IdleTask EXCEPT !.op = "replay", !.n = n,
                                                      !.loop = [loop EXCEPT !.list = list]]],
              t, n, list, setOk, "set")

\* The for...of loop of the Ready replay at its next iteration: the iterator
\* reads dataCache at its position, or is done when that is past the end, and
\* "ready" is emitted.  A join of a guild that has a connection throws at
\* once; the catch() on the call makes that a failed rejoin.
replayNext(s, t, n, loop, setOk) ==
    IF loop.i > Len(loop.list)
    THEN [s EXCEPT !.tasks[t] = [IdleTask EXCEPT !.loop = [loop EXCEPT !.on = FALSE]],
                   !.ret = [op |-> "ready", who |-> n, res |-> "ok"]]
    ELSE LET e == loop.list[loop.i]
             l1 == [loop EXCEPT !.i = @ + 1, !.tried = Append(@, e.guildId)]
         IN  IF has(s.connections, e.guildId)
             THEN replayPrune(s, t, n, l1, e.guildId, setOk)
             ELSE [joinVoiceChannel(s, t, n, e.guildId, e.channelId) EXCEPT
                      !.tasks[t].loop = l1]

\* Node.message, a Ready push of a resumed session on the open transport of a
\* Connected-to-be Node with options.resume and a store: the session id is
\* stored, the server told to keep the session, the roster read (all three
\* accepted) and the replay started on a roster that has entries.
ReadyReplay(n, sid, setOk) ==
    LET list == parseRoster(redisPlayers[n]) IN
    /\ node[n].ws \in {"open", "closing"}
    /\ ~(node[n].destroyed \/ node[n].state = Reconnecting)
    /\ options.resume /\ redis /\ ~options.resumeByLibrary
    /\ list # <<>>
    /\ FreeTasks(Cur) # {}
    /\ node' = [node EXCEPT ![n].ws = "ready", ![n].state = Connected,
                            ![n].sessionId = sid]
    /\ redisSession' = [redisSession EXCEPT ![n] = sid]
    /\ CommitGuild(replayNext([Cur EXCEPT !.surfaced = "none"], FreeTask(Cur), n,
                              [NoLoop EXCEPT !.on = TRUE, !.list = list, !.i = 1,
                                             !.first = list],
                              setOk))
    /\ UNCHANGED <<id, options, redis, nodes, timer, connectCall, connectResult, notes>>

\* The replay after the await of a join: a Player goes on with the next
\* entry, anything else (the join threw) prunes the entry just tried.
ReplayJoined(t, setOk) ==
    /\ tasks[t].op = "replay" /\ tasks[t].pc = "joined"
    /\ LET loop == tasks[t].loop
           g == loop.tried[Len(loop.tried)]
       IN  IF tasks[t].arg = "ok"
           THEN Commit(replayNext(Cur, t, tasks[t].n,
                                  [loop EXCEPT !.won = @ \cup {g}], setOk))
           ELSE Commit(replayPrune(Cur, t, tasks[t].n, loop, g, setOk))

\* The replay after the await of its roster write: a refused write throws out
\* of the loop, "error" is emitted and "ready" after it.
ReplaySet(t, setOk) ==
    /\ tasks[t].op = "replay" /\ tasks[t].pc = "set"
    /\ IF tasks[t].err
       THEN Commit([Cur EXCEPT !.tasks[t] = [IdleTask EXCEPT
                                               !.loop = [tasks[t].loop EXCEPT !.on = FALSE]],
                               !.ret = [op |-> "ready", who |-> tasks[t].n,
                                        res |-> "error"]])
       ELSE Commit(replayNext(Cur, t, tasks[t].n, tasks[t].loop, setOk))

\* ------------------------------------------------- Node.leaveVoiceChannel

\* Player.clean
Player_clean(pl) ==
    [pl EXCEPT !.trackIdentifier = Null, !.volume = 100, !.position = 0,
               !.filters = "none", !.encodedTrack = Null]

\* leaveVoiceChannel(g) on Node n up to its first await: the connection is
\* disconnected and unregistered, the player cleaned and its destroy request
\* sent (to player.node; it throws at once when that is undefined)
LeaveVoiceChannel(n, g) ==
    /\ node[n].made
    /\ FreeTasks(Cur) # {}
    /\ LET t == FreeTask(Cur)
           c == connections[g]
           p == players[g]
           s1 == IF c # 0 THEN [VoiceConnection_disconnect(Cur, c) EXCEPT !.connections[g] = 0]
                 ELSE Cur
           s2 == [s1 EXCEPT !.tasks[t] = [IdleTask EXCEPT !.op = "leave", !.g = g, !.n = n,
                                                          !.pl = p]]
       IN  IF p # 0
           THEN LET s3 == [s2 EXCEPT !.Player[p] = Player_clean(@)] IN
                IF Player[p].node = Null
                THEN Commit([s3 EXCEPT !.tasks[t].pc = "destroy", !.tasks[t].err = TRUE])
                ELSE Commit(Request(s3, t, Player[p].node, "destroy"))
           ELSE Commit(GetRoster(s2, t, n, "get"))

\* leaveVoiceChannel after destroyPlayer, whose failure is swallowed: the
\* guild's player is unregistered and the roster of this Node is read
LeaveDestroy(t, ok) ==
    /\ tasks[t].op = "leave" /\ tasks[t].pc = "destroy"
    /\ LET g == tasks[t].g
           s1 == IF ok /\ ~tasks[t].err
                 THEN [Cur EXCEPT !.remote[tasks[t].req][g] = NoRemote] ELSE Cur
       IN  Commit(GetRoster([s1 EXCEPT !.players[g] = 0, !.tasks[t].pl = 0, !.tasks[t].err = FALSE],
                            t, tasks[t].n, "get"))

\* leaveVoiceChannel after the roster was read: splice and write
LeaveGet(t, ok, setOk) ==
    /\ tasks[t].op = "leave" /\ tasks[t].pc = "get"
    /\ IF ~redis \/ ~ok THEN Commit(End(Cur, t, "error"))
       ELSE Commit(SetRoster(Cur, t, tasks[t].n, spliceGuild(tasks[t].cache, tasks[t].g),
                             setOk, "set"))

\* leaveVoiceChannel after the roster write
LeaveSet(t) ==
    /\ tasks[t].op = "leave" /\ tasks[t].pc = "set"
    /\ Commit(End(Cur, t, IF tasks[t].err THEN "error" ELSE "ok"))

\* ------------------------------------- the connectionUpdate listener, on

\* The listener after its roster read: the entry of the guild, or the last
\* entry when the guild has none, is overwritten with the connection's fields
\* and the roster of player.node written back.  On an empty roster at(-1) is
\* undefined and the assignment throws.
ListenerGet(t, ok, setOk) ==
    /\ tasks[t].op = "listener" /\ tasks[t].pc = "get"
    /\ LET cache == tasks[t].cache
           vc == VoiceConnection[tasks[t].conn]
           i == AtIndex(cache, tasks[t].g)
           n == Player[tasks[t].pl].node
       IN  IF ~ok \/ Len(cache) = 0 \/ n = Null THEN Commit(End(Cur, t, "error"))
           ELSE Commit(SetRoster(Cur, t, n,
                                 [cache EXCEPT ![i] = Entry(tasks[t].g, vc.channelId,
                                                            vc.deafened, vc.muted)],
                                 setOk, "set"))

\* The listener after its roster write: player.sendServerUpdate(connection)
ListenerSet(t) ==
    /\ tasks[t].op = "listener" /\ tasks[t].pc = "set"
    /\ IF tasks[t].err \/ Player[tasks[t].pl].node = Null THEN Commit(End(Cur, t, "error"))
       ELSE Commit(Request(Cur, t, Player[tasks[t].pl].node, "serverUpdate"))

\* The listener after sendServerUpdate
ListenerServerUpdate(t, ok, connected) ==
    /\ tasks[t].op = "listener" /\ tasks[t].pc = "serverUpdate"
    /\ LET n == tasks[t].req
           g == tasks[t].g
           r == VoiceUpdated(remote[n][g], connected)
       IN  IF ~ok \/ tasks[t].err THEN Commit(End(Cur, t, "error"))
           ELSE Commit(End([Cur EXCEPT !.remote[n][g] = r,
                                       !.Player[tasks[t].pl] = Mirrored(@, r)], t, "ok"))

\* ------------------------------------------------------ Player.movePlayer

\* 1.05 ** p in millionths, p a whole number of hundredths of load
RECURSIVE Pow105(_)
Pow105(p) == IF p = 0 THEN 1000000 ELSE (Pow105(p - 1) * 105) \div 100

\* Math.round(1.05 ** (100 * systemLoad) * 10 - 10): round is floor(x + 1/2)
cpuPenalty(load) == (20 * Pow105(load) - 19000000) \div 2000000

\* Node.penalties with each nulled frame counted once
penaltiesNulledOnce(st) ==
    IF ~st.known THEN 0
    ELSE st.players + cpuPenalty(st.load)
         + (IF st.frames THEN st.deficit + st.nulled ELSE 0)

\* Node.penalties, of the Node's stats st
penalties(st) ==
    IF ~st.known THEN 0
    ELSE st.players + cpuPenalty(st.load)
         + (IF st.frames THEN st.deficit + st.nulled * 2 ELSE 0)

\* sort((a, b) => a.penalties - b.penalties).shift() of the Nodes cand: the
\* sort is stable, so the first of the lowest penalties; Null for undefined
lowest(cand) ==
    IF cand = <<>> THEN Null
    ELSE cand[CHOOSE i \in 1..Len(cand) :
                 \A j \in 1..Len(cand) :
                    /\ penalties(node[cand[i]].stats) <= penalties(node[cand[j]].stats)
                    /\ j < i => penalties(node[cand[j]].stats) > penalties(node[cand[i]].stats)]

\* Esbatu.idealNode without its filter on the state
idealNodeOfAll == lowest(nodes)

\* Esbatu.idealNode
idealNode == lowest(SelectSeq(nodes, LAMBDA m : node[m].state = Connected))

\* idealExcludeCurrentNode of movePlayer: of the registered Connected Nodes
\* other than cur, in registration order, the first of the lowest penalties
\* (sort is stable); Null for undefined
idealExcludeCurrentNode(cur) ==
    lowest(SelectSeq(nodes, LAMBDA m : m # cur /\ node[m].state = Connected))

\* No Node but n holds a player for guild g
Sole(g, n) == \A m \in Nodes : remote[m][g].exists => m = n

\* the node movePlayer(name) resolves for a Player bound to cur
resolved(name, cur) == IF InSeq(name, nodes) THEN name ELSE idealExcludeCurrentNode(cur)

\* the first check of movePlayer without its comparison of names
unmovedIfUndefined(tgt, cur) == tgt = Null

\* !node || node.name === this.node.name
unmoved(tgt, cur) == tgt = Null \/ tgt = cur

\* movePlayer(name) on the Player of guild g up to its first await; name =
\* Null stands for no argument.  The resolved node is nodes.get(name) or else
\* the ideal other node; lastNode is the bound Node if registered and
\* Connected, or else the ideal other node.
\* batch: the Node whose clean() made the call, Null for a call of the
\* library user.  What a resume request carries of the Player is kept as it
\* is at the call (was).
movePlayer(g, name, batch) ==
    LET p == players[g]
        cur == Player[p].node
        tgt == resolved(name, cur)
        last == IF InSeq(cur, nodes) /\ node[cur].state = Connected THEN cur
                ELSE idealExcludeCurrentNode(cur)
        Ret(res) == [Cur EXCEPT !.ret = [op |-> "move", who |-> g, res |-> res]]
    IN  IF cur = Null THEN Ret("error")
        ELSE IF unmoved(tgt, cur) THEN Ret("false")
        ELSE IF node[tgt].state # Connected THEN Ret("error")
        ELSE LET t == FreeTask(Cur) IN
             GetRoster([Cur EXCEPT !.tasks[t] =
                           [IdleTask EXCEPT !.op = "move", !.g = g, !.tgt = tgt,
                                            !.last = last, !.pl = p,
                                            !.sole = Sole(g, cur), !.batch = batch,
                                            !.was = [NoPlayer EXCEPT
                                                       !.encodedTrack = Player[p].encodedTrack,
                                                       !.position = Player[p].position,
                                                       !.paused = Player[p].paused,
                                                       !.filters = Player[p].filters]]],
                       t, cur, "get1")

\* movePlayer(name) on the Player of guild g gets to its first await
MoveAwaits(g, name) ==
    LET cur == Player[players[g]].node
        tgt == resolved(name, cur)
    IN  cur # Null /\ ~unmoved(tgt, cur) /\ node[tgt].state = Connected

\* movePlayer(name) called by the library user
MovePlayer(g, name) ==
    /\ players[g] # 0
    /\ MoveAwaits(g, name) => FreeTasks(Cur) # {}
    /\ Commit(movePlayer(g, name, Null))

\* resumePlayer's request and, before it, the entry pushed on the roster just
\* read.  Both read this.connection, the guild's registered connection, and
\* throw when there is none.
Resume(s, t, pc) ==
    LET pl == s.Player[s.tasks[t].pl]
        c == s.connections[pl.guildId]
        vc == s.VoiceConnection[c]
    IN  IF c = 0 \/ pl.node = Null THEN [thrown |-> TRUE, s |-> s]
        ELSE [thrown |-> FALSE,
              s |-> [Request(s, t, pl.node, pc) EXCEPT
                        !.tasks[t].cache = Append(@, Entry(pl.guildId, vc.channelId,
                                                          vc.deafened, vc.muted)),
                        !.tasks[t].body = [track |-> pl.encodedTrack,
                                           position |-> pl.position,
                                           paused |-> pl.paused,
                                           filters |-> pl.filters]]]

\* resumePlayer after its await, and the roster write that follows it: the
\* server has taken over what the request carried; a player the server says is
\* not connected has its voice state sent again.
Resumed(s, t, connected, setOk, pc) ==
    LET pl == s.Player[s.tasks[t].pl]
        c == s.connections[pl.guildId]
        b == s.tasks[t].body
        s1 == [s EXCEPT !.remote[s.tasks[t].req][pl.guildId] =
                           [@ EXCEPT !.exists = TRUE, !.track = b.track,
                                     !.position = b.position, !.paused = b.paused,
                                     !.filters = b.filters, !.connected = connected]]
    IN  IF (~connected /\ c = 0) \/ pl.node = Null THEN [thrown |-> TRUE, s |-> s1]
        ELSE [thrown |-> FALSE,
              s |-> SetRoster(IF connected THEN s1 ELSE sendVoiceUpdate(s1, c),
                              t, pl.node, s.tasks[t].cache, setOk, pc)]

\* movePlayer, entering its try: the Player is bound to the target and the
\* target's roster read
MoveTry(s, t) ==
    GetRoster([s EXCEPT !.Player[s.tasks[t].pl].node = s.tasks[t].tgt],
              t, s.tasks[t].tgt, "get2")

\* movePlayer, entering its catch: the Player is bound to lastNode, and when
\* that is undefined the catch throws itself
MoveCatch(s, t) ==
    LET s1 == [s EXCEPT !.Player[s.tasks[t].pl].node = s.tasks[t].last] IN
    IF s.tasks[t].last = Null THEN End(s1, t, "error")
    ELSE GetRoster(s1, t, s.tasks[t].last, "get3")

\* movePlayer after the read of the bound Node's roster: splice, the flag is
\* set and the roster written back
MoveGet1(t, ok, setOk) ==
    /\ tasks[t].op = "move" /\ tasks[t].pc = "get1"
    /\ LET p == tasks[t].pl
           s1 == [Cur EXCEPT !.Player[p].prepareMove = TRUE]
       IN  IF ~redis \/ ~ok THEN Commit(End(Cur, t, "error"))
           ELSE IF Player[p].node = Null THEN Commit(End(s1, t, "error"))
           ELSE Commit(SetRoster(s1, t, Player[p].node,
                                 spliceGuild(tasks[t].cache, tasks[t].g), setOk, "set1"))

\* movePlayer after that write: the remote player is destroyed if the bound
\* Node is Connected
MoveSet1(t) ==
    /\ tasks[t].op = "move" /\ tasks[t].pc = "set1"
    /\ LET cur == Player[tasks[t].pl].node IN
       IF tasks[t].err \/ cur = Null THEN Commit(End(Cur, t, "error"))
       ELSE IF node[cur].state = Connected THEN Commit(Request(Cur, t, cur, "destroy"))
       ELSE Commit(MoveTry(Cur, t))

\* movePlayer after destroyPlayer, which is outside the try
MoveDestroy(t, ok) ==
    /\ tasks[t].op = "move" /\ tasks[t].pc = "destroy"
    /\ IF ~ok \/ tasks[t].err THEN Commit(End(Cur, t, "error"))
       ELSE Commit(MoveTry([Cur EXCEPT !.remote[tasks[t].req][tasks[t].g] = NoRemote], t))

\* movePlayer after the read of the target's roster
MoveGet2(t, ok) ==
    /\ tasks[t].op = "move" /\ tasks[t].pc = "get2"
    /\ Len(tasks[t].cache) < MaxRoster
    /\ LET r == Resume(Cur, t, "resume2") IN
       IF ~ok \/ r.thrown THEN Commit(MoveCatch(Cur, t)) ELSE Commit(r.s)

\* movePlayer after resumePlayer on the target
MoveResume2(t, ok, connected, setOk) ==
    /\ tasks[t].op = "move" /\ tasks[t].pc = "resume2"
    /\ LET r == Resumed(Cur, t, connected, setOk, "set2") IN
       IF ~ok \/ tasks[t].err THEN Commit(MoveCatch(Cur, t))
       ELSE IF r.thrown THEN Commit(MoveCatch(r.s, t))
       ELSE Commit(r.s)

\* movePlayer after the write of the target's roster: return true
MoveSet2(t) ==
    /\ tasks[t].op = "move" /\ tasks[t].pc = "set2"
    /\ IF tasks[t].err THEN Commit(MoveCatch(Cur, t))
       ELSE Commit(End([Cur EXCEPT !.Player[tasks[t].pl].prepareMove = FALSE], t, "true"))

\* movePlayer, in its catch, after the read of lastNode's roster
MoveGet3(t, ok) ==
    /\ tasks[t].op = "move" /\ tasks[t].pc = "get3"
    /\ Len(tasks[t].cache) < MaxRoster
    /\ LET r == Resume(Cur, t, "resume3") IN
       IF ~ok \/ r.thrown THEN Commit(End(Cur, t, "error")) ELSE Commit(r.s)

\* movePlayer, in its catch, after resumePlayer on lastNode
MoveResume3(t, ok, connected, setOk) ==
    /\ tasks[t].op = "move" /\ tasks[t].pc = "resume3"
    /\ LET r == Resumed(Cur, t, connected, setOk, "set3") IN
       IF ~ok \/ tasks[t].err THEN Commit(End(Cur, t, "error"))
       ELSE IF r.thrown THEN Commit(End(r.s, t, "error"))
       ELSE Commit(r.s)

\* movePlayer, in its catch, after the write of lastNode's roster: return false
MoveSet3(t) ==
    /\ tasks[t].op = "move" /\ tasks[t].pc = "set3"
    /\ IF tasks[t].err THEN Commit(End(Cur, t, "error"))
       ELSE Commit(End([Cur EXCEPT !.Player[tasks[t].pl].prepareMove = FALSE], t, "false"))

\* ------------------------------------- Node.message, Ready, resumeByLibrary

\* players of the Ready case: the Players bound to this Node decide whether
\* the library resumes
resumeByLibrary(n) == node[n].initialized /\ options.resumeByLibrary /\ Bound(n) # {}

\* The Players the batch of the Ready case iterates: this.manager.players.values()
batchPlayers == {g \in Guilds : players[g] # 0}

\* connections.get(player.guildId)?.serverUpdate is set
withData(s, g) ==
    s.connections[g] # 0 /\ s.VoiceConnection[s.connections[g]].serverUpdate # Null

\* The batch of the Ready case up to its await, from guild number i on: a
\* Player with voice-server data gets resumePlayer(), whose request goes to
\* player.node (none to an undefined one: the call rejects at once), any other
\* gets leaveVoiceChannel(guildId), which disconnects and unregisters the
\* connection, cleans the Player and sends its destroy request
RECURSIVE startBatch(_, _, _, _)
startBatch(s, t, todo, i) ==
    IF i > Len(GuildSeq) THEN s
    ELSE LET g == GuildSeq[i]
             c == s.connections[g]
             p == s.players[g]
         IN  IF g \notin todo THEN startBatch(s, t, todo, i + 1)
             ELSE IF withData(s, g)
             THEN startBatch([s EXCEPT !.tasks[t].calls[g] =
                                          IF s.Player[p].node = Null THEN "none"
                                          ELSE "resume"],
                             t, todo, i + 1)
             ELSE LET s1 == IF c # 0
                            THEN [VoiceConnection_disconnect(s, c) EXCEPT !.connections[g] = 0]
                            ELSE s
                  IN  startBatch([s1 EXCEPT !.Player[p] = Player_clean(@),
                                            !.tasks[t].calls[g] = "leave"],
                                 t, todo, i + 1)

\* Node.message, a Ready push on the open transport of a Node that Players
\* are bound to, with options.resumeByLibrary (and options.resume off): state
\* = Connected, the session id is kept and the batch runs up to its await.
ReadyResume(n, sid) ==
    /\ node[n].ws \in {"open", "closing"}
    /\ ~(node[n].destroyed \/ node[n].state = Reconnecting)
    /\ ~options.resume
    /\ resumeByLibrary(n)
    /\ FreeTasks(Cur) # {}
    /\ node' = [node EXCEPT ![n].ws = "ready", ![n].state = Connected,
                            ![n].sessionId = sid]
    /\ LET t == FreeTask(Cur) IN
       CommitGuild(startBatch([Cur EXCEPT !.surfaced = "none",
                                          !.tasks[t] = [IdleTask EXCEPT !.op = "resume",
                                                                        !.pc = "batch",
                                                                        !.n = n]],
                              t, batchPlayers, 1))
    /\ UNCHANGED <<id, options, redis, nodes, timer, connectCall, connectResult, notes,
                   redisSession>>

\* A resumePlayer of the batch after its await (ok: the request is accepted;
\* connected: what the server says of its player): the server's player holds
\* what the request carried, and a player that is not connected has the
\* voice update sent again
BatchResumed(t, g, ok, connected) ==
    /\ tasks[t].op = "resume" /\ tasks[t].calls[g] = "resume"
    /\ LET pl == Player[players[g]]
           c == connections[g]
           s1 == [Cur EXCEPT !.tasks[t].calls[g] = "none"]
           s2 == [s1 EXCEPT !.remote[pl.node][g] =
                               [@ EXCEPT !.exists = TRUE, !.track = pl.encodedTrack,
                                         !.position = pl.position, !.paused = pl.paused,
                                         !.filters = pl.filters, !.connected = connected]]
       IN  IF ~ok THEN Commit(s1)
           ELSE IF connected \/ c = 0 THEN Commit(s2)
           ELSE Commit(sendVoiceUpdate(s2, c))

\* A leaveVoiceChannel of the batch after its destroyPlayer (ok: the request
\* is accepted; a failure is swallowed): the Player is unregistered; the
\* read of this Node's roster, the splice and the write (setOk: accepted)
\* that follow are taken in the same step
BatchLeft(t, g, ok, setOk) ==
    /\ tasks[t].op = "resume" /\ tasks[t].calls[g] = "leave"
    /\ LET pl == Player[players[g]]
           n == tasks[t].n
           s1 == [Cur EXCEPT !.tasks[t].calls[g] = "none", !.players[g] = 0]
           s2 == IF ok /\ pl.node # Null
                 THEN [s1 EXCEPT !.remote[pl.node][g] = NoRemote] ELSE s1
       IN  IF redis /\ setOk
           THEN Commit([s2 EXCEPT !.redisPlayers[n] =
                                     [set |-> TRUE,
                                      list |-> spliceGuild(parseRoster(redisPlayers[n]), g)]])
           ELSE Commit(s2)

\* The Ready case after Promise.allSettled: "ready" is emitted
BatchSettled(t) ==
    /\ tasks[t].op = "resume" /\ tasks[t].pc = "batch"
    /\ \A g \in Guilds : tasks[t].calls[g] = "none"
    /\ Commit([Cur EXCEPT !.tasks[t] = IdleTask,
                          !.ret = [op |-> "ready", who |-> tasks[t].n, res |-> "ok"]])

\* ------------------------------------------ Node.clean, moving its Players

\* Promise.allSettled of the calls whose outcomes are res: it never rejects,
\* it fulfils with one status per call.
allSettled(res) ==
    [thrown |-> FALSE,
     data |-> [i \in 1..Len(res) |-> IF res[i] = "error" THEN "rejected" ELSE "fulfilled"]]

\* Node.clean from its await on: count is the number of fulfilled calls, the
\* catch emits "error" with the Node's name, and destroy(count) follows.
cleanAfter(n, r, e, res) ==
    LET awaited == allSettled(res)
        count == Cardinality({i \in 1..Len(awaited.data) : awaited.data[i] = "fulfilled"})
    IN  /\ IF awaited.thrown THEN destroy(n, r, [e EXCEPT !.error = TRUE], 0)
           ELSE destroy(n, r, e, count)
        /\ UNCHANGED timer

\* Node.close when clean() has a Player to move: movePlayer() is called on the
\* Player bound to the Node (the batch is taken while it has one Player), and
\* clean() awaits the call, or goes on at once when the call ended at once.
CloseAndMove(n) ==
    /\ node[n].ws \in {"connecting", "open", "ready", "closing"}
    /\ Cardinality(Bound(n)) = 1
    /\ LET r == [node[n] EXCEPT !.ws = "dead"]
           e == [notes[n] EXCEPT !.closeCode = IF node[n].ws = "closing" THEN 1000 ELSE 1006]
           g == CHOOSE b \in Bound(n) : TRUE
       IN  /\ Moves(n, r)
           /\ MoveAwaits(g, Null) => FreeTasks(Cur) # {}
           /\ CommitGuild(movePlayer(g, Null, n))
           /\ IF MoveAwaits(g, Null)
              THEN /\ node' = [node EXCEPT ![n] = r]
                   /\ notes' = [notes EXCEPT ![n] = e]
                   /\ UNCHANGED <<nodes, timer>>
              ELSE cleanAfter(n, r, e, <<movePlayer(g, Null, n).ret.res>>)
    /\ UNCHANGED <<id, options, redis, connectCall, connectResult, redisSession>>

\* Node.clean goes on after its await: the batch has settled
CleanSettled(t) ==
    /\ tasks[t].op = "clean" /\ tasks[t].pc = "settled"
    /\ \E n \in Nodes :
          /\ n = tasks[t].n
          /\ cleanAfter(n, node[n], notes[n], <<tasks[t].arg>>)
    /\ CommitGuild([Cur EXCEPT !.tasks[t] = IdleTask])
    /\ UNCHANGED <<id, options, redis, connectCall, connectResult, redisSession>>

\* ----------------------------------------------- Player, its operations

PlayerOps == {"play", "stop", "pause", "seek", "volume", "filters"}

\* The player a server holds after it accepted the update of operation op
\* with argument arg (a server makes the player if it has none)
Applied(r, op, arg) ==
    LET b == [r EXCEPT !.exists = TRUE] IN
    CASE op = "play" -> [b EXCEPT !.track = arg, !.position = 0]
      [] op = "stop" -> [b EXCEPT !.track = Null, !.position = 0]
      [] op = "pause" -> [b EXCEPT !.paused = arg]
      [] op = "seek" -> [b EXCEPT !.position = arg]
      [] op = "volume" -> [b EXCEPT !.volume = arg]
      [] op = "filters" -> [b EXCEPT !.filters = arg]

\* What operation op writes to the Player before its request is sent
BeforeUpdate(pl, op) ==
    IF op = "stop" THEN [pl EXCEPT !.position = 0, !.encodedTrack = Null] ELSE pl

\* What operation op writes to the Player from the server's answer r
AfterUpdate(pl, op, r) ==
    CASE op = "play" -> [pl EXCEPT !.trackIdentifier = Identifier(r.track),
                                   !.paused = r.paused, !.position = r.position,
                                   !.encodedTrack = r.track]
      [] op = "stop" -> pl
      [] op = "pause" -> [pl EXCEPT !.paused = r.paused]
      [] op = "seek" -> [pl EXCEPT !.position = r.position]
      [] op = "volume" -> [pl EXCEPT !.volume = r.volume]
      [] op = "filters" -> [pl EXCEPT !.filters = r.filters]

\* An operation of the Player of guild g up to its await of
\* this.node.rest.updatePlayer; an undefined this.node throws at once
Update(g, op, arg) ==
    LET p == players[g] IN
    /\ p # 0
    /\ FreeTasks(Cur) # {}
    /\ LET t == FreeTask(Cur)
           s1 == [Cur EXCEPT !.Player[p] = BeforeUpdate(@, op),
                             !.tasks[t] = [IdleTask EXCEPT !.op = op, !.g = g, !.pl = p,
                                                           !.arg = arg, !.was = Player[p]]]
       IN  IF Player[p].node = Null THEN Commit(End(s1, t, "error"))
           ELSE Commit(Request(s1, t, Player[p].node, "update"))

\* Player.playTrack({track})
PlayTrack(g, track) == Update(g, "play", track)

\* Player.stopTrack()
StopTrack(g) == Update(g, "stop", Null)

\* Player.setPaused(paused)
SetPaused(g, paused) == Update(g, "pause", paused)

\* Player.seekTo(position)
SeekTo(g, position) == Update(g, "seek", position)

\* Player.setGlobalVolume(volume)
SetGlobalVolume(g, volume) == Update(g, "volume", volume)

\* Player.setFilters(filters); clearFilters() is setFilters of the cleared set
SetFilters(g, filters) == Update(g, "filters", filters)

\* An operation after its await: a refused request throws; an accepted one
\* has changed the server's player and its answer is written to the Player
Updated(t, ok) ==
    /\ tasks[t].op \in PlayerOps /\ tasks[t].pc = "update"
    /\ LET n == tasks[t].req
           g == tasks[t].g
           r == Applied(remote[n][g], tasks[t].op, tasks[t].arg)
       IN  IF ~ok \/ tasks[t].err THEN Commit(End(Cur, t, "error"))
           ELSE Commit(End([Cur EXCEPT !.remote[n][g] = r,
                                       !.Player[tasks[t].pl] = AfterUpdate(@, tasks[t].op, r)],
                           t, "ok"))

\* ------------------------------------------------------- Rest.request

\* What a server answers: a status code and a body.  message: a JSON object
\* with a message member; object: a JSON object without one; string: a JSON
\* string; empty: no body; text: a body that is not JSON.
Statuses == {200, 204, 400, 500}
Bodies == {"message", "object", "string", "empty", "text"}

\* Rest.request from the answer of fetch on: what the call settles with.
\* request.json() rejects on a body that is not JSON (empty, text); on a
\* response that is not ok the rejection is caught as null, and `"message" in`
\* a null or a string throws a TypeError.
request(status, body) ==
    LET ok == status >= 200 /\ status <= 299
        json == IF body \in {"empty", "text"} THEN Null ELSE body
    IN  IF ~ok
        THEN IF json \in {Null, "string"} THEN "TypeError"
             ELSE IF json = "message" THEN "failedWithMessage"
             ELSE "failed"
        ELSE IF body \in {"empty", "text"} THEN "undefined" ELSE "result"

\* An operation after its await of Rest.request, which the server answered
\* with status and body: an answer that is ok has changed the server's
\* player; a decoded result is written to the Player; of an undefined result
\* only stopTrack reads nothing and returns, the others throw.
Answered(t, status, body) ==
    /\ tasks[t].op \in PlayerOps /\ tasks[t].pc = "update"
    /\ LET n == tasks[t].req
           g == tasks[t].g
           r == Applied(remote[n][g], tasks[t].op, tasks[t].arg)
           out == request(status, body)
       IN  IF tasks[t].err THEN Commit(End(Cur, t, "error"))
           ELSE IF out = "result"
           THEN Commit(End([Cur EXCEPT !.remote[n][g] = r,
                                       !.Player[tasks[t].pl] = AfterUpdate(@, tasks[t].op, r)],
                           t, "ok"))
           ELSE IF out = "undefined"
           THEN Commit(End([Cur EXCEPT !.remote[n][g] = r], t,
                           IF tasks[t].op = "stop" THEN "ok" ELSE "error"))
           ELSE Commit(End(Cur, t, "error"))

\* ------------------------------------------- Node.message, player pushes

\* Player.onPlayerUpdate without its first line
onPlayerUpdateAlways(s, p, position, ping, connected) ==
    [s EXCEPT !.Player[p].position = position, !.Player[p].ping = ping,
              !.Player[p].connected = connected, !.surfaced = "update"]

\* Player.onPlayerUpdate, on the Player p
onPlayerUpdate(s, p, position, ping, connected) ==
    IF s.Player[p].prepareMove THEN s
    ELSE [s EXCEPT !.Player[p].position = position, !.Player[p].ping = ping,
                   !.Player[p].connected = connected, !.surfaced = "update"]

EventTypes ==
    {"TrackStartEvent", "TrackEndEvent", "TrackStuckEvent", "TrackExceptionEvent",
     "WebSocketClosedEvent"}

\* the name Player.onPlayerEvent emits an event of each type under
LocalEvent(type) ==
    CASE type = "TrackStartEvent" -> "start"
      [] type = "TrackEndEvent" -> "end"
      [] type = "TrackStuckEvent" -> "stuck"
      [] type = "TrackExceptionEvent" -> "exception"
      [] type = "WebSocketClosedEvent" -> "closed"

\* Player.onPlayerEvent, on the Player p
onPlayerEvent(s, p, type, track) ==
    IF s.Player[p].prepareMove THEN s
    ELSE IF type = "TrackStartEvent"
    THEN [s EXCEPT !.Player[p].trackIdentifier = Identifier(track),
                   !.Player[p].encodedTrack = track, !.surfaced = "start"]
    ELSE [s EXCEPT !.surfaced = LocalEvent(type)]

\* Node.message drops what arrives on the transport of Node n
dropped(n) == node[n].destroyed \/ node[n].state = Reconnecting

\* Node.message on Node n with a playerUpdate push for guild g, which a
\* transport that is open can deliver
PlayerUpdate(n, g, position, ping, connected) ==
    /\ node[n].ws \in {"open", "ready", "closing"}
    /\ IF dropped(n) \/ players[g] = 0
       THEN Commit([Cur EXCEPT !.ret = [op |-> "message", who |-> g, res |-> "dropped"]])
       ELSE Commit([onPlayerUpdate(Cur, players[g], position, ping, connected) EXCEPT
                       !.ret = [op |-> "message", who |-> g, res |-> "ok"]])

\* Node.message on Node n with an event push for guild g
PlayerEvent(n, g, type, track) ==
    /\ node[n].ws \in {"open", "ready", "closing"}
    /\ IF dropped(n) \/ players[g] = 0
       THEN Commit([Cur EXCEPT !.ret = [op |-> "message", who |-> g, res |-> "dropped"]])
       ELSE Commit([onPlayerEvent(Cur, players[g], type, track) EXCEPT
                       !.ret = [op |-> "message", who |-> g, res |-> "ok"]])

\* ------------------------------------------------- Node.message, Stats

\* Node.message on Node n with a stats push: this.stats = data, unless the
\* push is dropped
Stats(n, st) ==
    /\ node[n].ws \in {"open", "ready", "closing"}
    /\ node' = IF node[n].destroyed \/ node[n].state = Reconnecting THEN node
               ELSE [node EXCEPT ![n].stats = st]
    /\ ret' = [op |-> "message", who |-> n, res |-> "ok"] /\ surfaced' = "none"
    /\ UNCHANGED <<id, options, redis, nodes, timer, connectCall, connectResult,
                   notes, redisSession, redisPlayers, guildVars>>

\* The library user reads Esbatu.idealNode
IdealNode ==
    /\ ret' = [op |-> "idealNode", who |-> idealNode, res |-> "ok"] /\ surfaced' = "none"
    /\ UNCHANGED <<id, options, redis, nodes, node, timer, connectCall, connectResult,
                   notes, redisSession, redisPlayers, guildVars>>

\* ------------------------------------------------------- the Node lifecycle

InitNode ==
    /\ id = Null
    /\ options \in [moveOnDisconnect : {FALSE}, resume : BOOLEAN, resumeByLibrary : {FALSE}]
    /\ redis \in BOOLEAN
    /\ nodes = <<>>
    /\ node = [n \in Nodes |-> NewNode]
    /\ timer = [n \in Nodes |-> 0]
    /\ connectCall = [n \in Nodes |-> IdleConnect]
    /\ connectResult = [n \in Nodes |-> "none"]
    /\ notes = [n \in Nodes |-> NoNotes]
    /\ ret = NoRet
    /\ redisSession = [n \in Nodes |-> Null]
    /\ redisPlayers = [n \in Nodes |-> NoRoster]
    /\ connections = [g \in Guilds |-> 0]
    /\ players = [g \in Guilds |-> 0]
    /\ VoiceConnection = [i \in Refs |-> NoConn]
    /\ Player = [i \in Refs |-> NoPlayer]
    /\ joined = {}
    /\ remote = [n \in Nodes |-> [g \in Guilds |-> NoRemote]]
    /\ tasks = [t \in TaskIds |-> IdleTask]
    /\ packets = [g \in Guilds |-> "none"]
    /\ surfaced = "none"

LifecycleNodes == {"A", "B"}

NodeStep(n) ==
    \/ AddNode(n)
    \/ \E v \in {"v4", "unsupported", "unreachable"} : ConnectProbe(n, v)
    \/ \E ok \in BOOLEAN : ConnectSession(n, ok)
    \/ TimerFire(n)
    \/ Upgrade(n)
    \/ Close(n)
    \/ \E sid \in SessionIds, resumed \in BOOLEAN, setOk \in BOOLEAN, ok \in BOOLEAN :
          Ready(n, sid, resumed, setOk, ok)
    \/ RemoveNode(n)

NextNode == SetId \/ \E n \in LifecycleNodes : NodeStep(n)

SpecNode == InitNode /\ [][NextNode]_vars

\* One Node under the fairness of its environment: a scheduled timer fires,
\* the version probe and the read of the stored session id end, an opened
\* transport completes its handshake or closes, a close asked for completes,
\* and the server sends Ready on a transport that stays open.
Handshake(n) == node[n].ws \in {"connecting", "closing"} /\ (Upgrade(n) \/ Close(n))

NextNodeFair == SetId \/ NodeStep("A")

SpecNodeFair ==
    /\ InitNode
    /\ [][NextNodeFair]_vars
    /\ WF_vars(TimerFire("A"))
    /\ WF_vars(\E v \in {"v4", "unsupported", "unreachable"} : ConnectProbe("A", v))
    /\ WF_vars(\E ok \in BOOLEAN : ConnectSession("A", ok))
    /\ WF_vars(Handshake("A"))
    /\ SF_vars(\E sid \in SessionIds, resumed \in BOOLEAN, setOk \in BOOLEAN, ok \in BOOLEAN :
                  Ready("A", sid, resumed, setOk, ok))

Removed(n) == node[n].destroyed /\ ~InSeq(n, nodes)

\* ------------------------------------------- joins, leaves and migrations

\* What the gateway and the servers may send
Users == {"me", "other"}
VoiceSessions == {"v1"}
Endpoints == {"e1"}
Tracks == {"t1"}
Positions == {5}
Pings == {7}

\* The Nodes the library user has added; both went through addNode, the
\* handshake and a Ready push and are Connected.
GuildNodes == <<"A", "B">>

ReadyNode ==
    [made |-> TRUE, state |-> Connected, reconnects |-> 0, destroyed |-> FALSE,
     initialized |-> TRUE, ws |-> "ready", sessionId |-> "s1", stats |-> NoStats]

\* store: a durable store is configured; move: options.moveOnDisconnect
InitOf(store, move) ==
    /\ id = "me"
    /\ options = [moveOnDisconnect |-> move, resume |-> FALSE, resumeByLibrary |-> FALSE]
    /\ redis = store
    /\ nodes = GuildNodes
    /\ node = [n \in Nodes |-> IF InSeq(n, GuildNodes) THEN ReadyNode ELSE NewNode]
    /\ timer = [n \in Nodes |-> 0]
    /\ connectCall = [n \in Nodes |-> IdleConnect]
    /\ connectResult = [n \in Nodes |-> IF InSeq(n, GuildNodes) THEN "ok" ELSE "none"]
    /\ notes = [n \in Nodes |-> NoNotes]
    /\ ret = NoRet
    /\ redisSession = [n \in Nodes |-> Null]
    /\ redisPlayers = [n \in Nodes |-> NoRoster]
    /\ connections = [g \in Guilds |-> 0]
    /\ players = [g \in Guilds |-> 0]
    /\ VoiceConnection = [i \in Refs |-> NoConn]
    /\ Player = [i \in Refs |-> NoPlayer]
    /\ joined = {}
    /\ remote = [n \in Nodes |-> [g \in Guilds |-> NoRemote]]
    /\ tasks = [t \in TaskIds |-> IdleTask]
    /\ packets = [g \in Guilds |-> "none"]
    /\ surfaced = "none"

InitWith(store) == InitOf(store, FALSE)

Init == InitWith(TRUE)

\* A call of the library user, about guild g
Call(g) ==
    \/ \E n \in Nodes, ch \in Channels : JoinVoiceChannel(n, g, ch)
    \/ \E n \in Nodes : LeaveVoiceChannel(n, g)
    \/ \E name \in Nodes \cup {Null} : MovePlayer(g, name)

\* A packet of the gateway about guild g, handed to updateInstance
Gateway(g) ==
    \/ \E user \in Users, ch \in Channels \cup {Null}, sid \in VoiceSessions :
          VoiceStateUpdate(g, user, ch, sid, TRUE, FALSE)
    \/ \E endpoint \in Endpoints \cup {Null} : VoiceServerUpdate(g, endpoint)

\* A joinVoiceChannel in flight goes on after an await.  Oks: whether requests
\* and commands of the store may be refused (FALSE) and accepted (TRUE);
\* connected: what a server that accepts an update says of its player.
ContinueJoin(t, Oks, connected) ==
    \/ \E ok \in Oks : JoinServerUpdate(t, ok, connected)
    \/ \E ok \in Oks, setOk \in Oks : JoinGet(t, ok, setOk)
    \/ JoinSet(t)

\* A leaveVoiceChannel in flight goes on
ContinueLeave(t, Oks) ==
    \/ \E ok \in Oks : LeaveDestroy(t, ok)
    \/ \E ok \in Oks, setOk \in Oks : LeaveGet(t, ok, setOk)
    \/ LeaveSet(t)

\* A connectionUpdate listener in flight goes on
ContinueListener(t, Oks, connected) ==
    \/ \E ok \in Oks, setOk \in Oks : ListenerGet(t, ok, setOk)
    \/ ListenerSet(t)
    \/ \E ok \in Oks : ListenerServerUpdate(t, ok, connected)

\* A movePlayer in flight goes on, up to its return true
ContinueMove(t, Oks, connected) ==
    \/ \E ok \in Oks, setOk \in Oks : MoveGet1(t, ok, setOk)
    \/ MoveSet1(t)
    \/ \E ok \in Oks : MoveDestroy(t, ok)
    \/ \E ok \in Oks : MoveGet2(t, ok)
    \/ \E ok \in Oks, setOk \in Oks : MoveResume2(t, ok, connected, setOk)
    \/ MoveSet2(t)

\* A movePlayer in flight goes on in its catch
ContinueCatch(t, Oks, connected) ==
    \/ \E ok \in Oks : MoveGet3(t, ok)
    \/ \E ok \in Oks, setOk \in Oks : MoveResume3(t, ok, connected, setOk)
    \/ MoveSet3(t)

\* A push of a server about guild g on a Node's transport
Push(g) ==
    \/ \E n \in Nodes, position \in Positions, ping \in Pings, connected \in BOOLEAN :
          PlayerUpdate(n, g, position, ping, connected)
    \/ \E n \in Nodes, type \in EventTypes, track \in Tracks :
          PlayerEvent(n, g, type, track)

\* Joins, leaves and migrations of one guild, any request and any command of
\* the store refused or accepted, the gateway sending what it likes; the
\* servers report their players connected.
Next ==
    \/ Call("G1")
    \/ Gateway("G1")
    \/ \E t \in TaskIds :
          \/ JoinTimeout(t)
          \/ ContinueJoin(t, BOOLEAN, TRUE)
          \/ ContinueLeave(t, BOOLEAN)
          \/ ContinueListener(t, BOOLEAN, TRUE)
          \/ ContinueMove(t, BOOLEAN, TRUE)
          \/ ContinueCatch(t, BOOLEAN, TRUE)

Spec == Init /\ [][Next]_vars

\* Joins, leaves and migrations of one guild with every request and every
\* command of the store accepted.
NextOk ==
    \/ Call("G1")
    \/ Gateway("G1")
    \/ \E t \in TaskIds :
          \/ ContinueJoin(t, {TRUE}, TRUE)
          \/ ContinueLeave(t, {TRUE})
          \/ ContinueListener(t, {TRUE}, TRUE)
          \/ ContinueMove(t, {TRUE}, TRUE)

SpecOk == Init /\ [][NextOk]_vars

\* Joins and migrations of one guild with every request and command accepted,
\* and the servers pushing player updates and events meanwhile.
NextPush ==
    \/ \E n \in Nodes, ch \in Channels : JoinVoiceChannel(n, "G1", ch)
    \/ \E name \in Nodes \cup {Null} : MovePlayer("G1", name)
    \/ Gateway("G1")
    \/ Push("G1")
    \/ \E t \in TaskIds :
          \/ ContinueJoin(t, {TRUE}, TRUE)
          \/ ContinueListener(t, {TRUE}, TRUE)
          \/ ContinueMove(t, {TRUE}, TRUE)

SpecPush == Init /\ [][NextPush]_vars

\* The same with or without a durable store configured.
SpecStores == (InitWith(TRUE) \/ InitWith(FALSE)) /\ [][NextOk]_vars

\* Joins of one guild, every request accepted, with the gateway's packets and
\* a failed-update signal on the connection.
NextVoice ==
    \/ \E n \in Nodes, ch \in Channels : JoinVoiceChannel(n, "G1", ch)
    \/ Gateway("G1")
    \/ ConnectionUpdate("G1", SessionFailedUpdate)
    \/ \E t \in TaskIds :
          \/ JoinTimeout(t)
          \/ ContinueJoin(t, {TRUE}, TRUE)
          \/ ContinueListener(t, {TRUE}, TRUE)

SpecVoice == Init /\ [][NextVoice]_vars

\* Guild G1 joined on Node A: what joinVoiceChannel({guildId: "G1", channelId:
\* "C1", shardId: 0}) on A leaves when the gateway answered with a voice state
\* and a voice server update and every step was accepted.
InitJoinedOf(move) ==
    /\ id = "me"
    /\ options = [moveOnDisconnect |-> move, resume |-> FALSE, resumeByLibrary |-> FALSE]
    /\ redis = TRUE
    /\ nodes = GuildNodes
    /\ node = [n \in Nodes |-> IF InSeq(n, GuildNodes) THEN ReadyNode ELSE NewNode]
    /\ timer = [n \in Nodes |-> 0]
    /\ connectCall = [n \in Nodes |-> IdleConnect]
    /\ connectResult = [n \in Nodes |-> IF InSeq(n, GuildNodes) THEN "ok" ELSE "none"]
    /\ notes = [n \in Nodes |-> NoNotes]
    /\ ret = NoRet
    /\ redisSession = [n \in Nodes |-> Null]
    /\ redisPlayers = [n \in Nodes |->
                          IF n = "A" THEN [set |-> TRUE, list |-> <<Entry("G1", "C1", TRUE, FALSE)>>]
                          ELSE NoRoster]
    /\ connections = [g \in Guilds |-> IF g = "G1" THEN 1 ELSE 0]
    /\ players = [g \in Guilds |-> IF g = "G1" THEN 1 ELSE 0]
    /\ VoiceConnection =
          [i \in Refs |-> IF i = 1
                          THEN [NewConn("G1", "C1") EXCEPT !.state = Connected, !.sessionId = "v1",
                                                           !.serverUpdate = "e1", !.region = "e",
                                                           !.listener = 1]
                          ELSE NoConn]
    /\ Player = [i \in Refs |-> IF i = 1 THEN [NewPlayer("G1", "A") EXCEPT !.connected = TRUE]
                                 ELSE NoPlayer]
    /\ joined = {"G1"}
    /\ remote = [n \in Nodes |-> [g \in Guilds |->
                    IF n = "A" /\ g = "G1"
                    THEN [NoRemote EXCEPT !.exists = TRUE, !.connected = TRUE] ELSE NoRemote]]
    /\ tasks = [t \in TaskIds |-> IdleTask]
    /\ packets = [g \in Guilds |-> IF g = "G1" THEN "C1" ELSE "none"]
    /\ surfaced = "none"

InitJoined == InitJoinedOf(FALSE)

\* What the library user asks a Player for
Volumes == {50}
Filters == {"f1", "cleared"}

\* The operations of the Player of a joined guild, each request accepted or
\* refused.
NextOps ==
    \/ \E track \in Tracks : PlayTrack("G1", track)
    \/ StopTrack("G1")
    \/ \E paused \in BOOLEAN : SetPaused("G1", paused)
    \/ \E position \in Positions : SeekTo("G1", position)
    \/ \E volume \in Volumes : SetGlobalVolume("G1", volume)
    \/ \E filters \in Filters : SetFilters("G1", filters)
    \/ \E t \in TaskIds, ok \in BOOLEAN : Updated(t, ok)

SpecOps == InitJoined /\ [][NextOps]_vars

\* Joins on Node A and migrations of one guild while the transports of the two
\* Nodes may drop (reconnectTries is not exhausted: the Node goes Reconnecting);
\* the steps of a migration may be refused.
NextDown ==
    \/ \E ch \in Channels : JoinVoiceChannel("A", "G1", ch)
    \/ \E name \in Nodes \cup {Null} : MovePlayer("G1", name)
    \/ Gateway("G1")
    \/ \E n \in LifecycleNodes : Close(n)
    \/ \E t \in TaskIds :
          \/ ContinueJoin(t, {TRUE}, TRUE)
          \/ ContinueListener(t, {TRUE}, TRUE)
          \/ ContinueMove(t, BOOLEAN, TRUE)
          \/ ContinueCatch(t, BOOLEAN, TRUE)

SpecDown == Init /\ [][NextDown]_vars

\* The channels a join of the guild may ask for
JoinChannels == {"C1", "C2"}

\* Joins and leaves of one guild on its Node A, for either channel; the gateway
\* answers the latest voice-state request with that request's channel; the
\* steps of a leave may be refused, those of a join are accepted.
NextRejoin ==
    \/ \E ch \in JoinChannels : JoinVoiceChannel("A", "G1", ch)
    \/ LeaveVoiceChannel("A", "G1")
    \/ \E sid \in VoiceSessions :
          /\ packets["G1"] \in JoinChannels
          /\ VoiceStateUpdate("G1", id, packets["G1"], sid, TRUE, FALSE)
    \/ \E endpoint \in Endpoints : VoiceServerUpdate("G1", endpoint)
    \/ \E t \in TaskIds :
          \/ ContinueJoin(t, {TRUE}, TRUE)
          \/ ContinueLeave(t, BOOLEAN)
          \/ ContinueListener(t, {TRUE}, TRUE)

SpecRejoin == Init /\ [][NextRejoin]_vars

\* Migrations of a joined guild with options.moveOnDisconnect set, while the
\* library user removes Nodes and their transports close; the steps of a
\* migration may be refused.
NextClean ==
    \/ \E name \in Nodes \cup {Null} : MovePlayer("G1", name)
    \/ \E n \in LifecycleNodes : RemoveNode(n) \/ Close(n) \/ CloseAndMove(n)
    \/ \E t \in TaskIds :
          \/ ContinueMove(t, BOOLEAN, TRUE)
          \/ ContinueCatch(t, BOOLEAN, TRUE)
          \/ CleanSettled(t)

SpecClean == InitJoinedOf(TRUE) /\ [][NextClean]_vars

\* Operations of the Player of a joined guild, the server answering each
\* request with some status and body.
NextRest ==
    \/ \E track \in Tracks : PlayTrack("G1", track)
    \/ StopTrack("G1")
    \/ \E paused \in BOOLEAN : SetPaused("G1", paused)
    \/ \E position \in Positions : SeekTo("G1", position)
    \/ \E t \in TaskIds, status \in Statuses, body \in Bodies : Answered(t, status, body)

SpecRest == InitJoined /\ [][NextRest]_vars

\* A joined guild and another without a Playback Handle, while the servers
\* push player updates and events and the transport of Node A drops and is
\* opened again, or the Node is removed.
NextPushNode ==
    \/ \E g \in Guilds : Push(g)
    \/ Close("A")
    \/ TimerFire("A")
    \/ \E v \in {"v4", "unsupported", "unreachable"} : ConnectProbe("A", v)
    \/ \E ok \in BOOLEAN : ConnectSession("A", ok)
    \/ Upgrade("A")
    \/ \E sid \in SessionIds : Ready("A", sid, FALSE, TRUE, TRUE)
    \/ RemoveNode("A")

SpecPushNode == InitJoined /\ [][NextPushNode]_vars

\* The statistics a server reports
StatsValues ==
    [known : {TRUE}, players : {0, 5}, load : {0, 1, 2, 50}, frames : {TRUE},
     deficit : {0, 10}, nulled : {0, 2}]
    \cup [known : {TRUE}, players : {0, 5}, load : {0, 1, 2, 50}, frames : {FALSE},
          deficit : {0}, nulled : {0}]

\* Two registered Nodes whose servers push statistics and whose transports
\* may drop, while the library user reads idealNode.
NextStats ==
    \/ \E n \in LifecycleNodes, st \in StatsValues : Stats(n, st)
    \/ \E n \in LifecycleNodes : Close(n)
    \/ IdealNode

SpecStats == Init /\ [][NextStats]_vars

\* ---------------------------------------------------------------- claims

\* The number of entries guild g has in the stored rosters of all Nodes
Entries(g) ==
    Cardinality({e \in Nodes \X (1..MaxRoster) :
                    /\ e[2] <= Len(redisPlayers[e[1]].list)
                    /\ redisPlayers[e[1]].list[e[2]].guildId = g})

\* C1: with a durable store configured, in every reachable state each guild id
\* appears at most once across the stored rosters of all Nodes (never in two
\* rosters, never twice in one).
C1_GuildOnceInRosters == redis => \A g \in Guilds : Entries(g) <= 1

\* C2: when a movePlayer call that started with no Node but the bound one
\* holding a player for the guild has finished (true, false or thrown), at most
\* one Node holds a player for the guild: migration never leaves the guild
\* playing on two servers.
C2_NoDoubleStart ==
    [][\A t \in TaskIds :
          (tasks[t].op = "move" /\ tasks[t].sole /\ tasks'[t].op = "idle")
          => \A g \in Guilds :
                g = tasks[t].g => Cardinality({n \in Nodes : remote'[n][g].exists}) <= 1]_vars

\* C3: when a leaveVoiceChannel(G) has completed for a guild whose
\* joinVoiceChannel had succeeded, on whichever Node it was invoked, G is in
\* the stored roster of no Node.
C3_LeftGuildInNoRoster ==
    (ret.op = "leave" /\ ret.res = "ok" /\ ret.who \in joined) => Entries(ret.who) = 0

\* C4: a Node's reconnect counter never exceeds reconnectTries, and a
\* transport close that finds the counter at reconnectTries on a Node that is
\* not destroyed (moveOnDisconnect off) removes the Node from the registry,
\* marks it destroyed and schedules no reconnect.
C4_ReconnectsBounded ==
    /\ [](\A n \in Nodes : node[n].reconnects <= reconnectTries)
    /\ [][\A n \in Nodes :
            (Close(n) /\ node[n].reconnects >= reconnectTries /\ ~node[n].destroyed
                /\ ~options.moveOnDisconnect)
            => (/\ ~InSeq(n, nodes') /\ InSeq(n, nodes)
                /\ node'[n].destroyed
                /\ node'[n].state = Disconnected
                /\ timer'[n] = 0 /\ connectCall'[n].pc = "idle"
                /\ notes'[n].disconnect = notes[n].disconnect + 1)]_vars

C4_Witness ==
    \E n \in Nodes :
        /\ Removed(n) /\ node[n].reconnects = reconnectTries
        /\ ~notes[n].removed /\ notes[n].closeCode = 1006 /\ notes[n].disconnect = 1

\* C5: under fairness, a Node whose transport closed involuntarily (it is
\* Reconnecting) is eventually Connected again or removed from the registry.
C5_ReconnectEnds ==
    (node["A"].state = Reconnecting) ~> (node["A"].state = Connected \/ Removed("A"))

\* C6: a destroyed Node never has a transport that is opening or open and is
\* never Connecting, Nearly or Connected, and a connect() on it, or on any
\* Node while the Coordinator's identity is not set, ends with an error.
C6_DestroyedNeverReused ==
    /\ [](\A n \in Nodes :
            node[n].destroyed =>
               /\ node[n].state \notin {Connecting, Nearly, Connected}
               /\ node[n].ws \notin {"connecting", "open", "ready"})
    /\ [][\A n \in Nodes :
            /\ (TimerFire(n) /\ node[n].destroyed) => connectResult'[n] = "error"
            /\ (AddNode(n) /\ id = Null) => connectResult'[n] = "error"
            /\ node[n].destroyed => node'[n].destroyed]_vars

\* C7: joinVoiceChannel for a guild that has a registered connection throws
\* and changes nothing: the connection, the Player, the rosters, the servers'
\* players and the calls in flight (another join among them) stay as they were.
C7_JoinOnExistingFails ==
    [][\A n \in Nodes, g \in Guilds, ch \in Channels :
          (JoinVoiceChannel(n, g, ch) /\ connections[g] # 0)
          => /\ ret' = [op |-> "join", who |-> g, res |-> "error"]
             /\ UNCHANGED <<connections, players, VoiceConnection, Player, redisPlayers,
                            remote, tasks, packets, joined>>]_vars

\* a join was turned down while an earlier join of the same guild is in flight
C7_Witness ==
    /\ ret = [op |-> "join", who |-> "G1", res |-> "error"]
    /\ \E t \in TaskIds : tasks[t].op = "join" /\ tasks[t].g = "G1" /\ tasks[t].pc = "get"
    /\ connections["G1"] # 0

\* C8: the flag _prepareMove of a Player is set only while a movePlayer call
\* on that Player is in flight.
C8_FlagOnlyWhileMoving ==
    \A p \in Refs :
        (Player[p].exists /\ Player[p].prepareMove)
        => \E t \in TaskIds : tasks[t].op = "move" /\ tasks[t].pl = p

\* C9: a playerUpdate or event push delivered to a Player whose _prepareMove is
\* set changes no field of any Player and surfaces no local event.
C9_PushesIgnoredWhileMoving ==
    [][\A g \in Guilds :
          (/\ players[g] # 0
           /\ Player[players[g]].prepareMove
           /\ \/ \E n \in Nodes, position \in Positions, ping \in Pings, connected \in BOOLEAN :
                    PlayerUpdate(n, g, position, ping, connected)
              \/ \E n \in Nodes, type \in EventTypes, track \in Tracks :
                    PlayerEvent(n, g, type, track))
          => /\ UNCHANGED <<Player, players>>
             /\ surfaced' = "none"]_vars

\* a push was just handled for a Player in migration: the Player still has
\* the position it had and no track, which no push leaves behind otherwise
C9_Witness ==
    /\ ret = [op |-> "message", who |-> "G1", res |-> "ok"]
    /\ players["G1"] # 0
    /\ Player[players["G1"]].prepareMove
    /\ Player[players["G1"]].position \notin Positions
    /\ surfaced = "none"

\* C10: movePlayer whose resolved node is the Node the Player is bound to
\* returns false and changes nothing: no Player field, no roster, no server's
\* player, and no call is left in flight (so no request was sent).
C10_MoveToBoundNodeIsNoop ==
    [][\A g \in Guilds, name \in Nodes \cup {Null} :
          (/\ MovePlayer(g, name)
           /\ Player[players[g]].node # Null
           /\ resolved(name, Player[players[g]].node) = Player[players[g]].node)
          => /\ ret' = [op |-> "move", who |-> g, res |-> "false"]
             /\ UNCHANGED <<connections, players, VoiceConnection, Player, redisPlayers,
                            remote, tasks, packets>>]_vars

\* a movePlayer just returned false for a Player whose servers and roster
\* show it joined and bound, with a Node other than its own to move to
C10_Witness ==
    /\ ret = [op |-> "move", who |-> "G1", res |-> "false"]
    /\ players["G1"] # 0
    /\ idealExcludeCurrentNode(Player[players["G1"]].node) # Null
    /\ \A t \in TaskIds : tasks[t].op = "idle"

\* movePlayer(name) on a Player bound to cur finds no eligible Node: the named
\* Node is registered and not Connected, or no Node is named (or the name is
\* unknown) and no Connected Node other than cur is registered
NoEligible(name, cur) ==
    IF InSeq(name, nodes) THEN node[name].state # Connected
    ELSE idealExcludeCurrentNode(cur) = Null

\* C11: movePlayer, with or without a target name, called while no eligible
\* Node is Connected, fails with an error and leaves the Player bound as it was.
C11_MoveWithoutTargetFails ==
    [][\A g \in Guilds, name \in Nodes \cup {Null} :
          (/\ MovePlayer(g, name)
           /\ Player[players[g]].node # Null
           /\ NoEligible(name, Player[players[g]].node))
          => /\ ret' = [op |-> "move", who |-> g, res |-> "error"]
             /\ UNCHANGED <<Player, players>>]_vars

\* C12: when movePlayer enters its catch (the rebind-and-resume against the
\* target failed), the Node the Player is rebound to is not the failed target.
C12_FallbackIsNotFailedTarget ==
    [][\A t \in TaskIds :
          (/\ tasks[t].op = "move" /\ tasks[t].pc \in {"get2", "resume2", "set2"}
           /\ tasks'[t].op = "move" /\ tasks'[t].pc = "get3")
          => Player'[tasks'[t].pl].node # tasks[t].tgt]_vars

\* C13: a movePlayer that returns, returns true exactly when the Player ends
\* the call bound to the chosen target with a remote player accepted there.
C13_TrueIffMovedToTarget ==
    [][\A t \in TaskIds, g \in Guilds, n \in Nodes :
          (/\ tasks[t].op = "move" /\ tasks'[t].op = "idle"
           /\ g = tasks[t].g /\ n = tasks[t].tgt
           /\ players'[g] # 0
           /\ ret'.res \in {"true", "false"})
          => (ret'.res = "true"
                <=> (Player'[players'[g]].node = n /\ remote'[n][g].exists))]_vars

\* C14: when the request of a Player operation (play, stop, pause, seek,
\* volume, filters) is refused, the call fails and the mirrored fields of the
\* Player are what they were before the call.
C14_FailedOperationChangesNothing ==
    [][\A t \in TaskIds :
          (tasks[t].op \in PlayerOps /\ tasks'[t].op = "idle")
          => \/ ret'.res = "ok"
             \/ /\ ret'.res = "error"
                /\ \A p \in Refs : p = tasks[t].pl => Player'[p] = tasks[t].was]_vars

\* The state InitJoined describes is one a join reaches
JoinedReached ==
    /\ redisPlayers = [n \in Nodes |->
                          IF n = "A" THEN [set |-> TRUE, list |-> <<Entry("G1", "C1", TRUE, FALSE)>>]
                          ELSE NoRoster]
    /\ connections = [g \in Guilds |-> IF g = "G1" THEN 1 ELSE 0]
    /\ players = [g \in Guilds |-> IF g = "G1" THEN 1 ELSE 0]
    /\ VoiceConnection[1] = [NewConn("G1", "C1") EXCEPT !.state = Connected, !.sessionId = "v1",
                                                        !.serverUpdate = "e1", !.region = "e",
                                                           !.listener = 1]
    /\ Player[1] = [NewPlayer("G1", "A") EXCEPT !.connected = TRUE]
    /\ joined = {"G1"}
    /\ remote["A"]["G1"] = [NoRemote EXCEPT !.exists = TRUE, !.connected = TRUE]
    /\ tasks = [t \in TaskIds |-> IdleTask]
    /\ packets["G1"] = "C1"

\* C15: with no store configured, a joinVoiceChannel whose voice handshake
\* and server request succeeded does not fail at its roster read (every
\* request is accepted in this specification).
C15_JoinWithoutStoreSucceeds ==
    [][\A t \in TaskIds :
          (tasks[t].op = "join" /\ tasks[t].pc = "get" /\ tasks'[t].op = "idle")
          => ret'.res = "ok"]_vars

\* C16: a VOICE_SERVER_UPDATE is accepted (cached, ready emitted) only with an
\* endpoint and on a connection that holds a session id; otherwise the signal
\* is missing-endpoint or missing-session-id and the cached server update and
\* region of the connection stay; a cached server update implies a session id.
C16_ServerUpdateNeedsSession ==
    [][/\ \A g \in Guilds, endpoint \in Endpoints \cup {Null} :
             VoiceServerUpdate(g, endpoint)
             => IF endpoint = Null \/ VoiceConnection[connections[g]].sessionId = Null
                THEN /\ surfaced' = IF endpoint = Null THEN SessionEndpointMissing
                                    ELSE SessionIdMissing
                     /\ connections'[g] # 0
                        => /\ VoiceConnection'[connections'[g]].serverUpdate
                                 = VoiceConnection[connections[g]].serverUpdate
                           /\ VoiceConnection'[connections'[g]].region
                                 = VoiceConnection[connections[g]].region
                ELSE /\ surfaced' = SessionReady
                     /\ connections'[g] # 0
                     /\ VoiceConnection'[connections'[g]].serverUpdate = endpoint
       /\ \A c \in Refs : VoiceConnection'[c].serverUpdate # Null
                              => VoiceConnection'[c].sessionId # Null]_vars

\* a server update without endpoint was turned down on a connected session,
\* whose cached server update is still there
C16_Witness ==
    /\ surfaced = SessionEndpointMissing
    /\ connections["G1"] # 0
    /\ VoiceConnection[connections["G1"]].serverUpdate = "e1"
    /\ VoiceConnection[connections["G1"]].region = "e"

\* C17: after every ready signal emitted for a connection, the connection's
\* state is Connected and its cached server update is not null.
C17_ReadyMeansConnected ==
    [][\A g \in Guilds, endpoint \in Endpoints :
          (VoiceServerUpdate(g, endpoint) /\ surfaced' = SessionReady)
          => /\ connections'[g] # 0
             /\ VoiceConnection'[connections'[g]].state = Connected
             /\ VoiceConnection'[connections'[g]].serverUpdate # Null]_vars

C19_JoinLeavesOneRequestedEntry ==
    [][\A t \in TaskIds, g \in Guilds, n \in Nodes, ch \in JoinChannels :
          (/\ tasks[t].op = "join" /\ tasks'[t].op = "idle" /\ ret'.res = "ok"
           /\ g = tasks[t].g /\ n = tasks[t].n /\ ch = tasks[t].ch)
          => /\ Cardinality({i \in 1..Len(redisPlayers'[n].list) :
                                redisPlayers'[n].list[i].guildId = g}) = 1
             /\ \A i \in 1..Len(redisPlayers'[n].list) :
                   redisPlayers'[n].list[i].guildId = g
                   => redisPlayers'[n].list[i] = Entry(g, ch, TRUE, FALSE)]_vars

\* C20: when the migration of a Playback Handle fails inside the batch of a
\* Node's clean(), the failure is surfaced through an "error" notification
\* carrying the Node's name by the time the batch operation has completed.
C20_BatchFailureIsSurfaced ==
    [][\A t \in TaskIds, n \in Nodes :
          (/\ tasks[t].op = "clean" /\ n = tasks[t].n /\ tasks[t].arg = "error"
           /\ tasks'[t].op = "idle")
          => notes'[n].error]_vars

\* C21: Node.destroy leaves the transport dropped, the session id null and
\* the state Disconnected, and marks the Node destroyed exactly when it was
\* destroyed already or its reconnect counter has reached reconnectTries; a
\* close whose cleanup finds that condition removes the Node from the
\* registry, and a close whose cleanup does not leaves it registered and not
\* destroyed (it goes on to Reconnecting).
C21_CleanupLeaves ==
    /\ [](\A n \in Nodes :
            LET d == destroyFields(node[n]) IN
            /\ d.ws = "none" /\ d.sessionId = Null /\ d.state = Disconnected
            /\ d.destroyed <=> (node[n].destroyed \/ node[n].reconnects >= reconnectTries))
    /\ [][\A n \in Nodes :
            Close(n) =>
               IF node[n].destroyed \/ node[n].reconnects >= reconnectTries
               THEN /\ node'[n].ws = "none" /\ node'[n].sessionId = Null
                    /\ node'[n].state = Disconnected /\ node'[n].destroyed
                    /\ ~InSeq(n, nodes')
               ELSE /\ InSeq(n, nodes) => InSeq(n, nodes')
                    /\ ~node'[n].destroyed
                    /\ node[n].state # Reconnecting
                       => /\ node'[n].ws = "none" /\ node'[n].sessionId = Null
                          /\ node'[n].state = Reconnecting]_vars

\* A Node that was Connected with a session id has been cleaned up for good
\* after its retries ran out, and another one is Reconnecting after a cleanup
\* that kept it registered.
C21_Witness ==
    /\ Removed("A") /\ node["A"].ws = "none" /\ node["A"].sessionId = Null
    /\ node["A"].state = Disconnected /\ ~notes["A"].removed
    /\ InSeq("B", nodes) /\ node["B"].state = Reconnecting /\ node["B"].ws = "none"
    /\ node["B"].sessionId = Null /\ node["B"].initialized /\ redisSession["B"] # Null

\* C22: removeNode with an unknown name throws and changes nothing of the
\* Nodes; a Node that removeNode has disconnected emits at most one
\* "disconnect" notification and never again has a transport opening or open.
C22_RemovedForGood ==
    /\ [][\A n \in Nodes :
            (RemoveNode(n) /\ ~InSeq(n, nodes))
            => /\ ret' = [op |-> "removeNode", who |-> n, res |-> "error"]
               /\ UNCHANGED <<node, nodes, notes, timer, connectCall>>]_vars
    /\ [](\A n \in Nodes :
            notes[n].removed
            => /\ notes[n].disconnect <= 1
               /\ node[n].ws \notin {"connecting", "open", "ready"})

\* C23: what idealNode has returned is a registered Node in state Connected
\* whose penalties are the lowest of the registered Connected Nodes, and it
\* has returned none exactly when no registered Node is Connected.
C23_IdealIsLowestConnected ==
    ret.op = "idealNode" =>
       LET live == {m \in Nodes : InSeq(m, nodes) /\ node[m].state = Connected} IN
       /\ ret.who = Null <=> live = {}
       /\ ret.who # Null =>
             /\ ret.who \in live
             /\ \A m \in live : penalties(node[ret.who].stats) <= penalties(node[m].stats)

\* idealNode has returned the only Connected Node, the second registered,
\* whose penalties are higher than those of the first, which is Reconnecting.
C23_Witness ==
    /\ ret = [op |-> "idealNode", who |-> "B", res |-> "ok"]
    /\ node["A"].state = Reconnecting /\ node["B"].state = Connected
    /\ penalties(node["A"].stats) < penalties(node["B"].stats)

\* C24: the penalties of a Node without statistics are 0; with statistics they
\* grow strictly with the player count, with the frame deficit and with the
\* nulled-frame count, a nulled frame weighing twice a deficit frame, and they
\* never decrease when the CPU load grows; players 5, load 0.5, deficit 10 and
\* nulled 2 give 5 + 105 + 10 + 4.
C24_PenaltiesGrow ==
    LET a == node["A"].stats
        b == node["B"].stats
        pa == penalties(a)
        pb == penalties(b)
    IN  /\ ~a.known => pa = 0
        /\ (a.known /\ b.known) =>
              /\ (b = [a EXCEPT !.players = b.players] /\ a.players < b.players) => pa < pb
              /\ (b = [a EXCEPT !.load = b.load] /\ a.load < b.load) => pa <= pb
              /\ (a.frames /\ b = [a EXCEPT !.deficit = b.deficit] /\ a.deficit < b.deficit)
                 => pb - pa = b.deficit - a.deficit
              /\ (a.frames /\ b = [a EXCEPT !.nulled = b.nulled] /\ a.nulled < b.nulled)
                 => pb - pa = 2 * (b.nulled - a.nulled)
        /\ a = [known |-> TRUE, players |-> 5, load |-> 50, frames |-> TRUE,
                deficit |-> 10, nulled |-> 2] => pa = 124

\* Node A has the statistics of the scenario and Node B the same but for
\* fewer nulled frames.
C24_Witness ==
    /\ node["A"].stats = [known |-> TRUE, players |-> 5, load |-> 50, frames |-> TRUE,
                          deficit |-> 10, nulled |-> 2]
    /\ node["B"].stats = [node["A"].stats EXCEPT !.nulled = 0]
    /\ penalties(node["A"].stats) = 124 /\ penalties(node["B"].stats) = 120

\* C24 as the claim has it: all of the above, and the penalties grow strictly
\* with the CPU load too.
C24_PenaltiesGrowStrictly ==
    LET a == node["A"].stats
        b == node["B"].stats
    IN  /\ C24_PenaltiesGrow
        /\ (a.known /\ b.known /\ b = [a EXCEPT !.load = b.load] /\ a.load < b.load)
           => penalties(a) < penalties(b)

\* C25: a call of Rest.request that the server has answered settles with a
\* decoded result (a status that is ok, a JSON body), with undefined (a status
\* that is ok, a body that cannot be decoded) or with the request-failed error
\* of the status code, which carries the remote message when the body is a
\* JSON object with one and is the generic one in every other case, an empty
\* body and a body that is not JSON among them.
C25_RequestOutcomes ==
    [][\A t \in TaskIds, status \in Statuses, body \in Bodies :
          Answered(t, status, body) =>
             LET out == request(status, body) IN
             IF status >= 200 /\ status <= 299
             THEN out = (IF body \in {"message", "object", "string"} THEN "result"
                         ELSE "undefined")
             ELSE out = (IF body = "message" THEN "failedWithMessage" ELSE "failed")]_vars

\* C26: a player-update or event push that arrives on a Node that is not in
\* state Connected, or is destroyed, changes no Player; and a push for a guild
\* without a Player is dropped and changes nothing.
C26_PushOnlyWhileConnected ==
    [][\A n \in Nodes, g \in Guilds :
          ((\/ \E position \in Positions, ping \in Pings, connected \in BOOLEAN :
                  PlayerUpdate(n, g, position, ping, connected)
            \/ \E type \in EventTypes, track \in Tracks : PlayerEvent(n, g, type, track))
           /\ (node[n].destroyed \/ node[n].state # Connected \/ players[g] = 0))
          => /\ UNCHANGED <<Player, players>>
             /\ ret' = [op |-> "message", who |-> g, res |-> "dropped"]]_vars

\* ---------------------------------------------------------------- C27

\* The rosters a previous process of this library can have left in the store
\* for a Node: its entries have distinct guilds.
StoredRosters ==
    {<<Entry(g, "C1", TRUE, FALSE)>> : g \in Guilds}
    \cup {r \in {<<Entry(g, "C1", TRUE, FALSE), Entry(h, "C1", TRUE, FALSE)>> :
                    g \in Guilds, h \in Guilds} : r[1].guildId # r[2].guildId}

\* A restarted process with options.resume and a store: Node A was added, its
\* handshake carried the stored session id and the transport is open; the
\* store holds the session and the roster of the process before.
InitReplay ==
    /\ id = "me"
    /\ options = [moveOnDisconnect |-> FALSE, resume |-> TRUE, resumeByLibrary |-> FALSE]
    /\ redis = TRUE
    /\ nodes = <<"A">>
    /\ node = [n \in Nodes |-> IF n = "A"
                               THEN [ReadyNode EXCEPT !.state = Nearly, !.ws = "open"]
                               ELSE NewNode]
    /\ timer = [n \in Nodes |-> 0]
    /\ connectCall = [n \in Nodes |-> IdleConnect]
    /\ connectResult = [n \in Nodes |-> IF n = "A" THEN "ok" ELSE "none"]
    /\ notes = [n \in Nodes |-> NoNotes]
    /\ ret = NoRet
    /\ redisSession = [n \in Nodes |-> IF n = "A" THEN "s1" ELSE Null]
    /\ \E list \in StoredRosters :
          redisPlayers = [n \in Nodes |-> IF n = "A" THEN [set |-> TRUE, list |-> list]
                                          ELSE NoRoster]
    /\ connections = [g \in Guilds |-> 0]
    /\ players = [g \in Guilds |-> 0]
    /\ VoiceConnection = [i \in Refs |-> NoConn]
    /\ Player = [i \in Refs |-> NoPlayer]
    /\ joined = {}
    /\ remote = [n \in Nodes |-> [g \in Guilds |-> NoRemote]]
    /\ tasks = [t \in TaskIds |-> IdleTask]
    /\ packets = [g \in Guilds |-> "none"]
    /\ surfaced = "none"

\* The Ready push of the resumed session, the replay and its joins, joins of
\* the library user, and the gateway answering the voice updates they send
NextReplay ==
    \/ \E setOk \in BOOLEAN : ReadyReplay("A", "s1", setOk)
    \/ \E g \in Guilds : JoinVoiceChannel("A", g, "C1")
    \/ \E g \in Guilds, sid \in VoiceSessions :
          /\ packets[g] \in Channels
          /\ VoiceStateUpdate(g, id, packets[g], sid, TRUE, FALSE)
    \/ \E g \in Guilds, endpoint \in Endpoints \cup {Null} : VoiceServerUpdate(g, endpoint)
    \/ \E t \in TaskIds :
          \/ JoinTimeout(t)
          \/ ContinueJoin(t, BOOLEAN, TRUE)
          \/ ContinueListener(t, {TRUE}, TRUE)
          \/ \E setOk \in BOOLEAN : ReplayJoined(t, setOk)
          \/ \E setOk \in BOOLEAN : ReplaySet(t, setOk)

SpecReplay == InitReplay /\ [][NextReplay]_vars

\* C27: when the replay of a resumed session ends, a join was issued exactly
\* once for every entry of the roster that was read (no entry is skipped), and
\* the stored roster consists of exactly the entries whose rejoin succeeded.
C27_ReplayCoversRoster ==
    [][\A t \in TaskIds, n \in Nodes :
          (tasks[t].op = "replay" /\ tasks[t].n = n /\ tasks'[t].op = "idle"
           /\ ret'.op = "ready" /\ ret'.res = "ok")
          => /\ \A i \in 1..Len(tasks'[t].loop.first) :
                    Cardinality({j \in 1..Len(tasks'[t].loop.tried) :
                                    tasks'[t].loop.tried[j]
                                    = tasks'[t].loop.first[i].guildId}) = 1
             /\ parseRoster(redisPlayers'[n])
                = SelectSeq(tasks'[t].loop.first,
                            LAMBDA e : e.guildId \in tasks'[t].loop.won)]_vars

\* ---------------------------------------------------------------- C28

\* G1 joined on Node A and G2 joined on Node A or B, each connection with or
\* without voice-server data (a join resolves without it when the holder of
\* the connection emits connectionUpdate itself), options.resumeByLibrary set.
InitResume ==
    /\ id = "me"
    /\ options = [moveOnDisconnect |-> FALSE, resume |-> FALSE, resumeByLibrary |-> TRUE]
    /\ redis = TRUE
    /\ nodes = GuildNodes
    /\ node = [n \in Nodes |-> IF InSeq(n, GuildNodes) THEN ReadyNode ELSE NewNode]
    /\ timer = [n \in Nodes |-> 0]
    /\ connectCall = [n \in Nodes |-> IdleConnect]
    /\ connectResult = [n \in Nodes |-> IF InSeq(n, GuildNodes) THEN "ok" ELSE "none"]
    /\ notes = [n \in Nodes |-> NoNotes]
    /\ ret = NoRet
    /\ redisSession = [n \in Nodes |-> Null]
    /\ connections = [g \in Guilds |-> CHOOSE i \in 1..Len(GuildSeq) : GuildSeq[i] = g]
    /\ players = [g \in Guilds |-> CHOOSE i \in 1..Len(GuildSeq) : GuildSeq[i] = g]
    /\ \E m \in {"A", "B"}, d \in [Guilds -> {"e1", Null}] :
          LET at == [g \in Guilds |-> IF g = "G1" THEN "A" ELSE m] IN
          /\ redisPlayers =
                [n \in Nodes |->
                    [set |-> \E g \in Guilds : at[g] = n,
                     list |-> SelectSeq([i \in 1..Len(GuildSeq) |->
                                           Entry(GuildSeq[i], "C1", TRUE, FALSE)],
                                        LAMBDA e : at[e.guildId] = n)]]
          /\ VoiceConnection =
                [i \in Refs |->
                    IF i <= Len(GuildSeq)
                    THEN [NewConn(GuildSeq[i], "C1") EXCEPT
                             !.state = Connected, !.sessionId = "v1",
                             !.serverUpdate = d[GuildSeq[i]],
                             !.region = IF d[GuildSeq[i]] = Null THEN Null ELSE "e",
                             !.listener = i]
                    ELSE NoConn]
          /\ Player = [i \in Refs |->
                          IF i <= Len(GuildSeq)
                          THEN [NewPlayer(GuildSeq[i], at[GuildSeq[i]]) EXCEPT !.connected = TRUE]
                          ELSE NoPlayer]
          /\ remote = [n \in Nodes |-> [g \in Guilds |->
                          IF at[g] = n THEN [NoRemote EXCEPT !.exists = TRUE, !.connected = TRUE]
                          ELSE NoRemote]]
    /\ joined = Guilds
    /\ tasks = [t \in TaskIds |-> IdleTask]
    /\ packets = [g \in Guilds |-> "C1"]
    /\ surfaced = "none"

\* The transport of Node A drops and is opened again, the Ready push arrives
\* and the batch of the client-side resume runs, the servers answering
NextResume ==
    \/ Close("A")
    \/ TimerFire("A")
    \/ \E v \in {"v4", "unsupported", "unreachable"} : ConnectProbe("A", v)
    \/ \E ok \in BOOLEAN : ConnectSession("A", ok)
    \/ Upgrade("A")
    \/ \E sid \in SessionIds : ReadyResume("A", sid)
    \/ \E t \in TaskIds, g \in Guilds, ok \in BOOLEAN, connected \in BOOLEAN :
          BatchResumed(t, g, ok, connected)
    \/ \E t \in TaskIds, g \in Guilds, ok \in BOOLEAN, setOk \in BOOLEAN :
          BatchLeft(t, g, ok, setOk)
    \/ \E t \in TaskIds : BatchSettled(t)

SpecResume == InitResume /\ [][NextResume]_vars

\* C28: the client-side resume run by a Ready push on a Node that has Players
\* issues one resume request for each Player bound to that Node whose
\* connection holds voice-server data and one leave for each Player bound to
\* it without; a Player bound to another Node gets no request and, while the
\* batch runs, is not removed.
C28_ResumeActsOnOwnPlayers ==
    [][\A n \in Nodes, t \in TaskIds :
          /\ (\E sid \in SessionIds : ReadyResume(n, sid)) /\ tasks'[t].op = "resume"
             => \A g \in Guilds :
                   tasks'[t].calls[g]
                   = IF g \notin Bound(n) THEN "none"
                     ELSE IF withData(Cur, g) THEN "resume" ELSE "leave"
          /\ (tasks[t].op = "resume" /\ tasks[t].n = n)
             => \A g \in Guilds :
                   (players[g] # 0 /\ players'[g] = 0) => g \in Bound(n)]_vars

\* ---------------------------------------------------------------- C29

\* C29: the count a disconnect notification of a Node carries is the number
\* of Players that clean() found bound to the Node and that are now bound to
\* another, Connected Node; a Player whose movePlayer returned false or threw
\* is not counted, and the count is 0 when clean() had nothing to move.
C29_CountIsMigrated ==
    [][\A n \in Nodes :
          notes'[n].disconnect # notes[n].disconnect
          => LET batch == IF CloseAndMove(n) THEN Bound(n)
                          ELSE {g \in Guilds : \E t \in TaskIds :
                                   /\ tasks[t].op = "clean" /\ tasks[t].pc = "settled"
                                   /\ tasks[t].n = n /\ tasks[t].g = g}
             IN  notes'[n].count
                 = Cardinality({g \in batch :
                      /\ players'[g] # 0
                      /\ Player'[players'[g]].node \notin {n, Null}
                      /\ node'[Player'[players'[g]].node].state = Connected})]_vars

\* ---------------------------------------------------------------- C30

\* C30: a close that leads to reconnect() while the Node is Reconnecting
\* changes nothing but the closed transport; otherwise reconnect() leaves the
\* Node without a transport, registered as it was and not destroyed, in state
\* Reconnecting, with its reconnect counter one higher and one more connect()
\* scheduled.  A Node never has two reconnect timers pending, and a transport
\* is opened only when the Node holds no live one.
C30_ReconnectOnce ==
    /\ [](\A n \in Nodes : timer[n] <= 1)
    /\ [][\A n \in Nodes :
             /\ (Close(n) /\ ~shouldClean(node[n]))
                => IF node[n].state = Reconnecting
                   THEN /\ node'[n] = [node[n] EXCEPT !.ws = "dead"]
                        /\ timer'[n] = timer[n] /\ nodes' = nodes
                   ELSE /\ node'[n].ws \in {"none", "dead"}
                        /\ node'[n].state = Reconnecting
                        /\ node'[n].reconnects = node[n].reconnects + 1
                        /\ timer'[n] = timer[n] + 1
                        /\ nodes' = nodes /\ ~node'[n].destroyed
                        /\ notes'[n].disconnect = notes[n].disconnect
             /\ (node'[n].ws = "connecting" /\ node[n].ws # "connecting")
                => node[n].ws \in {"none", "dead"}]_vars

\* A registered Node after a reconnect(): Reconnecting, no transport, its
\* counter raised and its one timer pending
C30_Witness ==
    \E n \in Nodes :
       /\ InSeq(n, nodes) /\ node[n].state = Reconnecting /\ node[n].ws = "none"
       /\ node[n].reconnects = 1 /\ timer[n] = 1 /\ notes[n].closeCode = 1006

\* ---------------------------------------------------------------- C31

\* One Node from addNode on, its server pushing statistics on the transport
NextLife ==
    \/ SetId
    \/ NodeStep("A")
    \/ \E st \in StatsValues : Stats("A", st)

SpecLife == InitNode /\ [][NextLife]_vars

\* C31: a Node enters Nearly only by the upgrade handshake of a transport
\* that was opened in Connecting, and its reconnect counter is then zero; it
\* enters Connected only by a Ready push on a Node that is Nearly, and then
\* holds the session id of that push; a statistics push that is not dropped
\* replaces the statistics, and no statistics push changes the state.
C31_LifecycleOrder ==
    [][\A n \in Nodes :
          /\ (node'[n].state = Nearly /\ node[n].state # Nearly)
             => /\ Upgrade(n)
                /\ node[n].state = Connecting /\ node[n].ws = "connecting"
                /\ node'[n].reconnects = 0
          /\ (node'[n].state = Connected /\ node[n].state # Connected)
             => /\ node[n].state = Nearly /\ node[n].ws = "open"
                /\ \E sid \in SessionIds, resumed \in BOOLEAN, setOk \in BOOLEAN,
                      ok \in BOOLEAN :
                      Ready(n, sid, resumed, setOk, ok) /\ node'[n].sessionId = sid
          /\ \A st \in StatsValues :
                Stats(n, st)
                => /\ node'[n].state = node[n].state
                   /\ node'[n].stats
                      = IF node[n].destroyed \/ node[n].state = Reconnecting
                        THEN node[n].stats ELSE st]_vars

\* ---------------------------------------------------------------- C32

NextMovePush ==
    \/ \E name \in Nodes \cup {Null} : MovePlayer("G1", name)
    \/ Push("G1")
    \/ \E t \in TaskIds, connected \in BOOLEAN :
          \/ ContinueMove(t, BOOLEAN, connected)
          \/ ContinueCatch(t, BOOLEAN, connected)

SpecMovePush == InitJoined /\ [][NextMovePush]_vars

\* C33: the resume request that movePlayer sends, to the target and to the
\* fallback, carries the encoded track, position, pause flag and filters the
\* Player held when movePlayer was called, whatever pushes arrived since; an
\* accepted request whose answer says the player is not connected has the
\* guild's voice update sent again.
C33_ResumeCarriesCallState ==
    [][\A t \in TaskIds :
          /\ (tasks[t].op = "move" /\ tasks'[t].op = "move"
              /\ tasks'[t].pc \in {"resume2", "resume3"} /\ tasks'[t].pc # tasks[t].pc)
             => tasks'[t].body = [track |-> tasks[t].was.encodedTrack,
                                  position |-> tasks[t].was.position,
                                  paused |-> tasks[t].was.paused,
                                  filters |-> tasks[t].was.filters]
          /\ (tasks[t].op = "move" /\ tasks[t].pc \in {"resume2", "resume3"}
              /\ tasks'[t].op = "move" /\ tasks'[t].pc \in {"set2", "set3"}
              /\ ~remote'[tasks[t].req][tasks[t].g].connected
              /\ connections[tasks[t].g] # 0)
             => packets'[tasks[t].g]
                = VoiceConnection[connections[tasks[t].g]].channelId]_vars

\* ---------------------------------------------------------------- C34

\* C34: in every state, a guild that has a Player registered has a
\* VoiceConnection registered.
C34_PlayerHasConnection ==
    \A g \in Guilds : players[g] # 0 => connections[g] # 0

\* ---------------------------------------------------------------- C35

\* C35: with a store configured, whenever no join, leave, move or Ready
\* handler is in progress, every guild with a registered Player bound to Node
\* n has an entry in the roster stored for n.
C35_BoundHasEntry ==
    (redis /\ \A t \in TaskIds : tasks[t].op = "idle")
    => \A n \in Nodes : \A g \in Bound(n) :
          \E i \in 1..Len(parseRoster(redisPlayers[n])) :
             parseRoster(redisPlayers[n])[i].guildId = g

\* ---------------------------------------------------------------- C36

\* With G1 joined on Node A: joins of G2, leaves and migrations of both
\* guilds, and the gateway answering the voice updates and sending voice
\* server updates; every request and every command of the store is accepted.
NextRoster ==
    \/ JoinVoiceChannel("A", "G2", "C1")
    \/ \E g \in Guilds :
          \/ LeaveVoiceChannel("A", g)
          \/ MovePlayer(g, Null)
          \/ /\ packets[g] \in Channels
             /\ VoiceStateUpdate(g, id, packets[g], "v1", TRUE, FALSE)
          \/ VoiceServerUpdate(g, "e1")
    \/ \E t \in TaskIds :
          \/ ContinueJoin(t, {TRUE}, TRUE)
          \/ ContinueLeave(t, {TRUE})
          \/ ContinueListener(t, {TRUE}, TRUE)
          \/ ContinueMove(t, {TRUE}, TRUE)

SpecRoster == InitJoined /\ [][NextRoster]_vars

\* The entries of guild h in a stored roster
EntriesOf(r, h) == SelectSeq(parseRoster(r), LAMBDA e : e.guildId = h)

\* C36: the roster write of leaveVoiceChannel, of movePlayer for the roster of
\* the Node it leaves, and of the connectionUpdate listener, each for guild g,
\* leaves the entries of every other guild in every roster as they were.
C36_EditsOwnEntryOnly ==
    [][\A t \in TaskIds :
          (\/ \E ok \in BOOLEAN, setOk \in BOOLEAN : LeaveGet(t, ok, setOk)
           \/ \E ok \in BOOLEAN, setOk \in BOOLEAN : MoveGet1(t, ok, setOk)
           \/ \E ok \in BOOLEAN, setOk \in BOOLEAN : ListenerGet(t, ok, setOk))
          => \A n \in Nodes : \A h \in Guilds \ {tasks[t].g} :
                EntriesOf(redisPlayers'[n], h) = EntriesOf(redisPlayers[n], h)]_vars

\* ---------------------------------------------------------------- C37

\* C37: a player-update or an event push that arrives on the transport of a
\* Node the guild's Player is not bound to leaves the Player's fields
\* unchanged.
C37_PushFromBoundNodeOnly ==
    [][\A n \in Nodes, g \in Guilds :
          (/\ players[g] # 0 /\ Player[players[g]].node # n
           /\ \/ \E position \in Positions, ping \in Pings, connected \in BOOLEAN :
                    PlayerUpdate(n, g, position, ping, connected)
              \/ \E type \in EventTypes, track \in Tracks : PlayerEvent(n, g, type, track))
          => Player'[players[g]] = Player[players[g]]]_vars

\* ---------------------------------------------------------------- C38

\* C38: in every state, a registered VoiceConnection in state Connected has a
\* channel id.
C38_ConnectedHasChannel ==
    \A g \in Guilds :
       (connections[g] # 0 /\ VoiceConnection[connections[g]].state = Connected)
       => VoiceConnection[connections[g]].channelId # Null

\* ---------------------------------------------------------------- C39

\* C39: with options.moveOnDisconnect, once a Node has been removed from the
\* registry for good and while another Node is Connected, no registered
\* Player is bound to the removed Node and, with no call in flight, none has
\* its _prepareMove flag set.
C39_NoPlayerOnRemovedNode ==
    \A n \in Nodes :
       (/\ options.moveOnDisconnect /\ Removed(n)
        /\ \E m \in Nodes \ {n} : InSeq(m, nodes) /\ node[m].state = Connected
        /\ \A t \in TaskIds : tasks[t].op = "idle")
       => /\ Bound(n) = {}
          /\ \A g \in Guilds : players[g] # 0 => ~Player[players[g]].prepareMove

\* ---------------------------------------------------------------- C40

\* C40: when a joinVoiceChannel that has sent its join voice-state request
\* fails, the guild's VoiceConnection is unregistered and the last voice-state
\* request sent for the guild is a leave (null channel).
C40_FailedJoinLeaves ==
    [][\A t \in TaskIds, g \in Guilds :
          (/\ tasks[t].op = "join" /\ tasks[t].g = g /\ tasks'[t].op # "join"
           /\ ret' = [op |-> "join", who |-> g, res |-> "error"])
          => connections'[g] = 0 /\ packets'[g] = Null]_vars


====
